---- MODULE Spec2Model ----
(***************************************************************************)
(* Model of runKeyboardTests (src/src/index.ts), the keyboard walk of the  *)
(* accessibility-testing MCP server.  The walk's own state (counters,      *)
(* memo set, result aggregate) is modelled field by field.  The browser    *)
(* page it drives is an input: a page is a tab ring of focusable elements  *)
(* plus a list of elements outside the tab order, and the effect of a key  *)
(* press on the page is a function of the element kinds.                   *)
(*                                                                         *)
(* Five specifications:                                                    *)
(*   Spec        one run of runKeyboardTests on a page of the catalogue;   *)
(*   ToolSpec    the CallToolRequestSchema handler, with several           *)
(*               invocations interleaved at their awaits;                  *)
(*   FormatSpec  keyboardToAxeViolationsFormat applied to a result;        *)
(*   ConfigSpec  loadConfig applied to an environment, then the options a  *)
(*               scanning tool hands to axe.run;                           *)
(*   RouteSpec   the page.route handler of the walk and the requests the   *)
(*               browser makes.                                            *)
(***************************************************************************)
EXTENDS Integers, Sequences, FiniteSets, TLC

\* ------------------------------------------------------------------ bounds
MaxPage == 3        \* longest tab ring among the freely composed pages
LongLen == 150      \* length of the long page of plain links
NumBoxes == 6       \* overlay containers on the overlay page
BoxSize == 4        \* links per overlay container on the overlay page
NumInvocations == 2 \* tool invocations in flight together
MaxEntries == 2     \* longest list in a result handed to the JSON conversion
MaxLevelLen == 4    \* longest WCAG_LEVEL value among the freely composed ones
MaxRequests == 2    \* requests the browser makes while the route handler is watched

\* ------------------------------------------------------ program constants
maxDialogEscapes == 5
TabSlack == 10
TabCeiling == 150
TrapThreshold == 3

NoSelector == "<null>"      \* previousFocusedSelector = null
OriginalUrl == [path |-> "/page", hash |-> "top"]
OtherUrl == [path |-> "/other", hash |-> ""]

\* ------------------------------------------------------------- page input
\* An element of the tab ring.  onEnter / sticky / box / closable describe
\* what the page's own scripts do when the element is activated or tabbed.
El(tag, cls, role, aria, onEnter, sticky, box, closable) ==
  [tag |-> tag, id |-> "", cls |-> cls, role |-> role, aria |-> aria,
   onEnter |-> onEnter, sticky |-> sticky, box |-> box, closable |-> closable]

LinkA       == El("a", "", "", "none", "none", FALSE, 0, FALSE)
LinkB       == El("a", "x", "", "none", "none", FALSE, 0, FALSE)
BtnPlain    == El("button", "", "", "none", "none", FALSE, 0, FALSE)
BtnHash     == El("button", "nav", "", "none", "hash", FALSE, 0, FALSE)
BtnHash2    == El("button", "go", "", "none", "hash", FALSE, 0, FALSE)
BtnPush     == El("button", "nav", "", "none", "push", FALSE, 0, FALSE)
\* onclick="location.href='/other'": asks the browser to load another page
BtnHref     == El("button", "away", "", "none", "href", FALSE, 0, FALSE)
BtnDlgOk    == El("button", "open", "", "none", "dlgOk", FALSE, 0, FALSE)
BtnDlgStuck == El("button", "open", "", "none", "dlgStuck", FALSE, 0, FALSE)
Toggle      == El("div", "acc", "button", "expanded", "toggle", FALSE, 0, FALSE)
Sticky      == El("div", "trap", "", "none", "none", TRUE, 0, FALSE)
ModalOk     == El("a", "", "", "none", "none", TRUE, 1, TRUE)
ModalStuck  == El("a", "", "", "none", "none", TRUE, 2, FALSE)
\* the single control inside a dialog opened by BtnDlgOk / BtnDlgStuck
DlgCtl      == El("input", "dlg", "", "none", "none", TRUE, 0, FALSE)

\* elements that meet one condition of the probe guard each, or none
TabItem     == El("li", "tab", "tab", "selected", "toggle", FALSE, 0, FALSE)
MenuItem    == El("li", "mi", "menuitem", "none", "none", FALSE, 0, FALSE)
Pressed     == El("span", "tgl", "", "pressed", "toggle", FALSE, 0, FALSE)
Option      == El("li", "opt", "", "selected", "toggle", FALSE, 0, FALSE)
Field       == El("input", "q", "", "none", "none", FALSE, 0, FALSE)

\* a menu button: Enter opens its menu, sets aria-expanded and moves the focus
\* to the first item of the menu, the next element of the ring
MenuBtn     == El("button", "menu", "", "expanded", "menu", FALSE, 0, FALSE)
\* a button with aria-expanded that opens a dialog and leaves its attribute
BtnDlgAria  == El("button", "more", "", "expanded", "dlgOk", FALSE, 0, FALSE)

\* the document body
Body        == El("body", "", "", "none", "none", FALSE, 0, FALSE)

SmallKinds == {LinkA, BtnPlain, BtnHash, BtnHash2, BtnPush, BtnDlgOk,
               BtnDlgStuck, Toggle, Sticky, ModalOk, ModalStuck}

SmallRings == UNION {[1..n -> SmallKinds] : n \in 0..MaxPage}

\* LongLen links whose selectors alternate, so no two neighbours are equal
LongRing == [k \in 1..LongLen |-> IF k % 2 = 1 THEN LinkA ELSE LinkB]

\* NumBoxes overlay containers, each closable with Escape, BoxSize links each
OverlayRing ==
  [k \in 1..(NumBoxes * BoxSize) |->
     El("a", "", "", "none", "none", FALSE, ((k - 1) \div BoxSize) + 1, TRUE)]

\* four adjacent links with equal tag, id and classes
TwinRing == [k \in 1..(TrapThreshold + 1) |-> LinkA]

\* pages that begin with the button that asks for another page
HrefRings == {<<BtnHref>>, <<BtnHref, LinkA>>, <<BtnHref, LinkA, BtnHref>>}

\* pages made of the elements that separate the conditions of the probe guard
GuardRings == {<<BtnHash, Field, TabItem>>, <<MenuItem, Pressed>>,
               <<Option, Field, BtnPlain>>}

\* a dialog that Escape closes, then one that it does not, on a page with
\* enough elements for the walk to read each of them four times
DialogsRing == <<ModalOk, ModalStuck, LinkA, LinkA, LinkA, LinkA>>

\* a button inside each container of the catalogue of containers, and an
\* element that carries a dialog class itself
ContainerRings ==
  {<<El("button", "in", "", "none", "none", FALSE, b, FALSE), LinkA>> : b \in 101..106}
    \cup {<<El("div", "popup", "button", "none", "none", FALSE, 0, FALSE), LinkA>>}

\* pages on which the probing Enter moves the focus off the probed element
DisclosureRings == {<<MenuBtn, MenuItem, LinkA>>, <<BtnDlgAria, LinkA, LinkA>>}

Rings == SmallRings \cup HrefRings \cup GuardRings \cup DisclosureRings
           \cup ContainerRings
           \cup {LongRing, OverlayRing, TwinRing, DialogsRing}

\* the computed style and bounding box of an element, as the visibility
\* tests read them
Style(display, visibility, opacity, width, height) ==
  [display |-> display, visibility |-> visibility, opacity |-> opacity,
   width |-> width, height |-> height]

Shown == Style("block", "visible", "1", 80, 20)

\* elements outside the tab order, as the post-walk scan sees them
Inert(tag, role, onclick, tabIndex, hasHref, style) ==
  [tag |-> tag, id |-> "", cls |-> "", role |-> role, onclick |-> onclick,
   tabIndex |-> tabIndex, hasHref |-> hasHref, style |-> style]

InertOptions ==
  { << >>,
    << Inert("button", "checkbox", FALSE, -1, FALSE, Shown) >>,
    << Inert("div", "button", FALSE, -1, FALSE, Shown),
       Inert("button", "checkbox", FALSE, -1, FALSE, Shown),
       Inert("span", "link", FALSE, -1, FALSE,
             Style("none", "visible", "1", 0, 0)),
       Inert("div", "", TRUE, -1, FALSE, Shown),
       Inert("p", "", FALSE, -1, FALSE, Shown) >>,
    << Inert("section", "button", FALSE, -1, FALSE,
             Style("block", "visible", "0", 80, 20)),
       Inert("li", "tab", FALSE, -1, FALSE,
             Style("block", "hidden", "1", 80, 20)),
       Inert("span", "radio", FALSE, -1, FALSE,
             Style("inline", "visible", "0.5", 80, 0)),
       Inert("td", "menuitem", FALSE, -1, FALSE,
             Style("table-cell", "visible", "0.5", 80, 20)) >> }

\* The scan reads no walk state, so the list of elements outside the tab
\* order is varied on the rings of at most one element only.
Pages ==
  {[ring |-> r, inert |-> n] : r \in Rings, n \in {<< >>}}
    \cup {[ring |-> r, inert |-> n] :
            r \in {q \in SmallRings : Len(q) <= 1}, n \in InertOptions}

\* ------------------------------------------------------------------ state
VARIABLES
  page,                           \* [ring, inert]: the page under test
  dom,                            \* [focus, closed, openDlg, toggled, url]
  pc,                             \* "walk", "scan", "done", "threw";
                                  \* "converted" once the result is converted
  i,                              \* loop counter of the for loop
  totalFocusableElements, testedElements, keyboardTraps,
  unfocusableInteractive, focusOrder, dialogEscapes, buttonActivations,
  previousFocusedSelector, trapDetectionCount, dialogEscapeAttempts,
  navigationTriggeringSelectors,
  keyLog,                         \* every page.keyboard.press, in order
  probeLog,                       \* every probing Enter and what it did
  readLog,                        \* what every Tab step read, and its branch
  env,                            \* process.env, as far as loadConfig reads it
  serverConfig,                   \* the ServerConfig loadConfig returned
  axeCall,                        \* [tool, tags, options] of the axe.run made
  route,                          \* [installed, page, log]: the page.route
                                  \* handler and the requests made so far
  calls,                          \* the tool invocations, each with its position
  aceSession,                     \* the engine session of the ACE module
  violations                      \* output of keyboardToAxeViolationsFormat

\* the state of one run of runKeyboardTests
WalkVars == <<page, dom, pc, i, totalFocusableElements, testedElements,
              keyboardTraps, unfocusableInteractive, focusOrder, dialogEscapes,
              buttonActivations, previousFocusedSelector, trapDetectionCount,
              dialogEscapeAttempts, navigationTriggeringSelectors, keyLog,
              probeLog, readLog>>

\* the state outside runKeyboardTests
toolVars == <<env, serverConfig, axeCall, route, calls, aceSession, violations>>

vars == <<page, dom, pc, i, totalFocusableElements, testedElements,
          keyboardTraps, unfocusableInteractive, focusOrder, dialogEscapes,
          buttonActivations, previousFocusedSelector, trapDetectionCount,
          dialogEscapeAttempts, navigationTriggeringSelectors, keyLog,
          probeLog, readLog, env, serverConfig, axeCall, route, calls, aceSession,
          violations>>

Min(a, b) == IF a < b THEN a ELSE b

\* tag + #id + .classes, as derived at each read of an element
Selector(e) ==
  e.tag \o (IF e.id # "" THEN "#" \o e.id ELSE "")
        \o (IF e.cls # "" THEN "." \o e.cls ELSE "")

\* mutant: the ceiling of 150 is dropped
maxTabsNoCeiling == totalFocusableElements + TabSlack

\* the step budget of the for loop
maxTabs == Min(totalFocusableElements + TabSlack, TabCeiling)

\* ----------------------------------------------------- the page's reactions
Ring == page.ring

\* document.activeElement: 0 is the body, -1 the control of an opened dialog
ActiveElement(d) ==
  IF d.focus = -1 THEN DlgCtl ELSE IF d.focus = 0 THEN Body ELSE Ring[d.focus]

\* page.keyboard.press('Tab'): focus moves to the next element of the ring
\* that is still displayed, unless the focused element keeps the focus
PressTab(d) ==
  LET ahead == {k \in 1..Len(Ring) : k > d.focus /\ Ring[k].box \notin d.closed}
      next  == IF ahead = {} THEN 0
               ELSE CHOOSE k \in ahead : \A j \in ahead : k <= j
  IN  IF d.focus = -1 THEN d
      ELSE IF d.focus > 0 /\ Ring[d.focus].sticky THEN d
      ELSE [d EXCEPT !.focus = next]

\* the page.route handler: TRUE when the request is aborted
RouteAborts(isNavigation, mainFrame, currentUrl, requestUrl, isData) ==
  isNavigation /\ mainFrame /\ currentUrl # requestUrl /\ ~isData

\* requestUrl.startsWith('data:')
DataUrl == [path |-> "data:text/html,about", hash |-> ""]

\* mutant: no return after route.abort()
routeHandlerFallsThrough(currentUrl, request) ==
  IF RouteAborts(request.isNavigation, request.mainFrame, currentUrl,
                 request.url, request.url = DataUrl)
  THEN <<"abort", "continue">>
  ELSE <<"continue">>

\* the handler given to page.route: the calls it makes on the route
routeHandler(currentUrl, request) ==
  IF RouteAborts(request.isNavigation, request.mainFrame, currentUrl,
                 request.url, request.url = DataUrl)
  THEN <<"abort">>
  ELSE <<"continue">>

\* the page runKeyboardTests was given, and another page of the browser
WalkPage == "page under test"

\* page.route not yet called / called on the page under test
NoRoute == [installed |-> FALSE, page |-> WalkPage, log |-> << >>]
RouteInstalled == [installed |-> TRUE, page |-> WalkPage, log |-> << >>]

\* the requests a browser may make
Requests ==
  [page : {WalkPage, "another page"}, isNavigation : BOOLEAN, mainFrame : BOOLEAN,
   url : {[path |-> "/page", hash |-> "top"], [path |-> "/other", hash |-> ""],
          [path |-> "/page", hash |-> "other"], DataUrl}]

\* page.keyboard.press('Enter') on the focused element; a request for another
\* page passes through the route handler
PressEnter(d) ==
  IF d.focus <= 0 THEN d
  ELSE LET e == Ring[d.focus] IN
    CASE e.onEnter = "hash"   -> [d EXCEPT !.url = [path |-> "/page", hash |-> "other"]]
      [] e.onEnter = "push"   -> [d EXCEPT !.url = OtherUrl]
      [] e.onEnter = "href"   -> IF RouteAborts(TRUE, TRUE, d.url, OtherUrl, FALSE)
                                 THEN d
                                 ELSE [d EXCEPT !.url = OtherUrl, !.focus = 0]
      [] e.onEnter \in {"dlgOk", "dlgStuck"}
                              -> [d EXCEPT !.openDlg = d.focus, !.focus = -1]
      [] e.onEnter = "toggle" -> [d EXCEPT !.toggled =
                                    IF d.focus \in d.toggled
                                    THEN d.toggled \ {d.focus}
                                    ELSE d.toggled \cup {d.focus}]
      [] e.onEnter = "menu"   -> [d EXCEPT !.toggled = @ \cup {d.focus},
                                           !.focus = d.focus + 1]
      [] OTHER                -> d

\* page.keyboard.press('Escape')
PressEscape(d) ==
  IF d.focus = -1
  THEN IF Ring[d.openDlg].onEnter = "dlgOk"
       THEN [d EXCEPT !.focus = d.openDlg, !.openDlg = 0]
       ELSE d
  ELSE IF d.focus > 0 /\ Ring[d.focus].box # 0 /\ Ring[d.focus].closable
       THEN [d EXCEPT !.closed = d.closed \cup {Ring[d.focus].box}, !.focus = 0]
       ELSE d

\* ------------------------------------------------------- strings as lists
IsSpace(c) == c = " "
IsDigit(c) == c \in {"0", "1", "2", "3", "4", "5", "6", "7", "8", "9"}

LowerChar(c) ==
  CASE c = "A" -> "a" [] c = "C" -> "c" [] c = "E" -> "e" [] c = "G" -> "g"
    [] c = "L" -> "l" [] c = "M" -> "m" [] c = "S" -> "s" [] c = "V" -> "v" [] c = "W" -> "w" [] c = "X" -> "x"
    [] OTHER -> c

toLowerCase(s) == [k \in DOMAIN s |-> LowerChar(s[k])]

\* the string a character sequence spells
RECURSIVE Join(_)
Join(s) == IF s = << >> THEN "" ELSE Head(s) \o Join(Tail(s))

SetMin(S) == CHOOSE m \in S : \A n \in S : m <= n
SetMax(S) == CHOOSE m \in S : \A n \in S : m >= n

\* -------------------------------------------------------- dialog detector
\* a node of the document, as the detector reads it: id and class names are
\* lists of characters
Node(tag, id, classes, role, ariaModal) ==
  [tag |-> tag, id |-> id, classes |-> classes, role |-> role,
   ariaModal |-> ariaModal]

\* the spelling of the class names of the elements of the catalogue
Spell(cls) ==
  CASE cls = "x"    -> <<"x">>
    [] cls = "q"    -> <<"q">>
    [] cls = "nav"  -> <<"n", "a", "v">>
    [] cls = "go"   -> <<"g", "o">>
    [] cls = "away" -> <<"a", "w", "a", "y">>
    [] cls = "open" -> <<"o", "p", "e", "n">>
    [] cls = "acc"  -> <<"a", "c", "c">>
    [] cls = "trap" -> <<"t", "r", "a", "p">>
    [] cls = "dlg"  -> <<"d", "l", "g">>
    [] cls = "tab"  -> <<"t", "a", "b">>
    [] cls = "mi"   -> <<"m", "i">>
    [] cls = "tgl"  -> <<"t", "g", "l">>
    [] cls = "opt"  -> <<"o", "p", "t">>
    [] cls = "menu" -> <<"m", "e", "n", "u">>
    [] cls = "more" -> <<"m", "o", "r", "e">>
    [] cls = "in"   -> <<"i", "n">>
    [] cls = "popup" -> <<"p", "o", "p", "u", "p">>

\* the ancestors of an element of container b, innermost first, up to the
\* child of the body
BoxChain(b) ==
  CASE b = 0   -> << >>
    [] b = 101 -> <<Node("div", << >>,
                         <<<<"m", "o", "d", "a", "l", "-", "d", "i", "a", "l", "o", "g">>>>,
                         "", "")>>
    [] b = 102 -> <<Node("div", <<"p", "o", "p", "u", "p", "1">>, << >>, "", "")>>
    [] b = 103 -> <<Node("div", <<"L", "o", "g", "i", "n", "M", "o", "d", "a", "l">>,
                         << >>, "", "")>>
    [] b = 104 -> <<Node("section", << >>, << >>, "dialog", ""),
                    Node("div", << >>, <<<<"m", "o", "d", "a", "l">>>>, "", "")>>
    [] b = 105 -> <<Node("div", << >>, <<<<"m", "e", "n", "u">>>>, "", "true")>>
    [] b = 106 -> <<Node("dialog", << >>, << >>, "", "")>>
    [] OTHER   -> <<Node("div", << >>, <<<<"o", "v", "e", "r", "l", "a", "y">>>>, "", "")>>

\* the nodes the detector's loop visits: document.activeElement and its
\* parentElement chain, the body excluded
Chain(d) ==
  LET own(e) == Node(e.tag, << >>, IF e.cls = "" THEN << >> ELSE <<Spell(e.cls)>>,
                     e.role, "")
  IN  IF d.focus = 0 THEN << >>
      ELSE IF d.focus = -1
      THEN <<own(DlgCtl), Node("div", << >>, <<<<"m", "o", "d", "a", "l">>>>, "", "")>>
      ELSE <<own(Ring[d.focus])>> \o BoxChain(Ring[d.focus].box)

\* mutant: class names are searched for the words as ids are, and ids for
\* all four words
IsDialogBySubstring(n) ==
  LET includes(s, w) == \E k \in 1..(Len(s) - Len(w) + 1) :
                          SubSeq(s, k, k + Len(w) - 1) = w
      words == {<<"m", "o", "d", "a", "l">>, <<"d", "i", "a", "l", "o", "g">>,
                <<"p", "o", "p", "u", "p">>, <<"o", "v", "e", "r", "l", "a", "y">>}
  IN  \/ n.role \in {"dialog", "alertdialog"}
      \/ n.ariaModal = "true"
      \/ n.tag = "dialog"
      \/ \E k \in DOMAIN n.classes : \E w \in words : includes(n.classes[k], w)
      \/ \E w \in words : includes(toLowerCase(n.id), w)

\* isDialog: the dialog patterns tested on one node
IsDialog(n) ==
  LET includes(s, w) == \E k \in 1..(Len(s) - Len(w) + 1) :
                          SubSeq(s, k, k + Len(w) - 1) = w
      contains(w) == \E k \in DOMAIN n.classes : n.classes[k] = w
  IN  \/ n.role \in {"dialog", "alertdialog"}
      \/ n.ariaModal = "true"
      \/ n.tag = "dialog"
      \/ contains(<<"m", "o", "d", "a", "l">>)
      \/ contains(<<"d", "i", "a", "l", "o", "g">>)
      \/ contains(<<"p", "o", "p", "u", "p">>)
      \/ contains(<<"o", "v", "e", "r", "l", "a", "y">>)
      \/ includes(toLowerCase(n.id), <<"m", "o", "d", "a", "l">>)
      \/ includes(toLowerCase(n.id), <<"d", "i", "a", "l", "o", "g">>)

\* checkForDialog: is the active element, or an ancestor below the body, a
\* dialog by role, aria-modal, tag, class or id; the first match going up is
\* reported by its selector
checkForDialog(d) ==
  LET chain == Chain(d)
      hits  == {k \in DOMAIN chain : IsDialog(chain[k])}
      first == chain[SetMin(hits)]
      dotted(cs) == IF cs = << >> THEN ""
                    ELSE Join([k \in DOMAIN cs |-> "." \o Join(cs[k])])
  IN  IF hits = {}
      THEN [inDialog |-> FALSE, dialogInfo |-> NoSelector]
      ELSE [inDialog |-> TRUE,
            dialogInfo |-> first.tag
                             \o (IF first.id # << >> THEN "#" \o Join(first.id) ELSE "")
                             \o dotted(first.classes)]

\* the aria-expanded / aria-pressed / aria-selected values of the active
\* element ("null" for an absent attribute)
AriaState(d) ==
  LET val(attr) ==
        IF d.focus > 0 /\ Ring[d.focus].aria = attr
        THEN (IF d.focus \in d.toggled THEN "true" ELSE "false")
        ELSE "null"
  IN  [ariaExpanded |-> val("expanded"), ariaPressed |-> val("pressed"),
       ariaSelected |-> val("selected")]

\* resetFocusToStart: blur the active element and focus the body
resetFocusToStart(d) == [d EXCEPT !.focus = 0]

\* page.goto(target) after a probe changed the URL.  A target that
\* differs from the current URL only in a non-empty fragment is reached
\* inside the document and issues no request; every other target issues a
\* main-frame navigation request, which passes through the route handler.
Goto(d, target) ==
  LET sameDocument == d.url.path = target.path /\ target.hash # ""
      aborted == ~sameDocument /\ RouteAborts(TRUE, TRUE, d.url, target, FALSE)
  IN  [ok |-> ~aborted, dom |-> [d EXCEPT !.url = IF aborted THEN d.url ELSE target]]

\* the visibility test of the census of focusable elements
SurveyorVisible(style) ==
  /\ style.display # "none"
  /\ style.visibility # "hidden"
  /\ style.opacity # "0"
  /\ style.width > 0
  /\ style.height > 0

\* the visibility test of the post-walk scan
ScannerVisible(style) ==
  /\ style.display # "none"
  /\ style.visibility # "hidden"
  /\ style.width > 0
  /\ style.height > 0

\* the census of visible focusable elements taken before the walk; every
\* element of a tab ring is shown
Census(r) == Len(SelectSeq(r, LAMBDA e : SurveyorVisible(Shown)))

\* the post-walk scan for interactive elements that cannot take focus
UnfocusableScan(inert) ==
  LET keep(e) == /\ \/ e.onclick
                    \/ e.role \in {"button", "link", "menuitem", "tab", "checkbox", "radio"}
                 /\ e.tag \notin {"a", "button", "input", "select", "textarea"}
                 /\ ~(e.tag = "a" /\ e.hasHref)
                 /\ e.tabIndex < 0
                 /\ ScannerVisible(e.style)
      kept == SelectSeq(inert, keep)
  IN  [k \in 1..Len(kept) |-> [selector |-> Selector(kept[k]), role |-> kept[k].role]]

\* ------------------------------------------------------------ one Tab step
\* the element read after the Tab press; selector = NoSelector for body/root
ReadFocused(d) ==
  IF d.focus = 0
  THEN [selector |-> NoSelector, tagName |-> "", node |-> 0]
  ELSE [selector |-> Selector(ActiveElement(d)),
        tagName  |-> ActiveElement(d).tag,
        node     |-> d.focus]

\* the read of this iteration: Tab pressed on the current page
currentFocused == ReadFocused(PressTab(dom))

\* the focusOrder entry pushed for the element read
FocusItem(cur) ==
  [index |-> testedElements + 1, selector |-> cur.selector,
   tagName |-> cur.tagName, node |-> cur.node]

\* mutant: the memo set is not consulted
ShouldProbeNoMemo(d, cur) ==
  \/ cur.tagName = "button"
  \/ ActiveElement(d).role \in {"button", "tab", "menuitem"}
  \/ ActiveElement(d).aria \in {"expanded", "pressed"}

\* mutant: only native buttons are probed
ShouldProbeTagOnly(d, cur) ==
  /\ cur.tagName = "button"
  /\ cur.selector \notin navigationTriggeringSelectors

\* the guard of the activation probe
ShouldProbe(d, cur) ==
  /\ \/ cur.tagName = "button"
     \/ ActiveElement(d).role \in {"button", "tab", "menuitem"}
     \/ ActiveElement(d).aria \in {"expanded", "pressed"}
  /\ cur.selector \notin navigationTriggeringSelectors

\* the ButtonActivation of a probe that left the URL unchanged
Activation(cur, inDlg, expandedContent) ==
  [selector |-> cur.selector, activated |-> TRUE,
   triggeredDialog |-> inDlg, expandedContent |-> expandedContent,
   note |-> IF inDlg THEN "Button triggered a dialog/modal"
            ELSE IF expandedContent THEN "Button toggled expanded/pressed state"
            ELSE "Button activated (no visible state change)"]

\* mutant: the outcome flag of the Escape is inverted
ProbeEscapeResultInverted(info, still) ==
  [dialogSelector |-> info, escapedSuccessfully |-> still,
   note |-> IF still
            THEN "Dialog opened by button could not be closed with Escape key"
            ELSE "Successfully closed dialog opened by button activation"]

\* mutant: the Escape is reported as successful without the second check
ProbeEscapeResultUnchecked(info, still) ==
  [dialogSelector |-> info, escapedSuccessfully |-> TRUE,
   note |-> "Successfully closed dialog opened by button activation"]

\* the DialogEscape recorded after the Escape that follows a probe
ProbeEscapeResult(info, still) ==
  [dialogSelector |-> info, escapedSuccessfully |-> ~still,
   note |-> IF still
            THEN "Dialog opened by button could not be closed with Escape key"
            ELSE "Successfully closed dialog opened by button activation"]

\* do the three aria values differ between the two snapshots
StateChanged(beforeState, afterState) ==
  \/ beforeState.ariaExpanded # afterState.ariaExpanded
  \/ beforeState.ariaPressed # afterState.ariaPressed
  \/ beforeState.ariaSelected # afterState.ariaSelected

\* the part of the probe after an Enter that left the URL unchanged: dialog
\* check, record, Escape, collapsing Enter (d2 is the page after the Enter)
ProbeSettle(d1, d2, cur) ==
  LET inDlg    == checkForDialog(d2).inDialog
      expanded == StateChanged(AriaState(d1), AriaState(d2))
      collapse == expanded /\ ~inDlg
  IN  [probed |-> TRUE, navigated |-> FALSE, originalUrl |-> d1.url,
       dom |-> IF inDlg THEN PressEscape(d2)
               ELSE IF collapse THEN PressEnter(d2) ELSE d2,
       activations |-> <<Activation(cur, inDlg, expanded)>>,
       escapes |-> IF inDlg
                   THEN <<ProbeEscapeResult(checkForDialog(d2).dialogInfo,
                            checkForDialog(PressEscape(d2)).inDialog)>>
                   ELSE << >>,
       keys |-> <<"Enter">> \o (IF inDlg THEN <<"Escape">> ELSE << >>)
                            \o (IF collapse THEN <<"Enter">> ELSE << >>)]

\* the activation probe: guard, Enter, URL comparison, and the rest when the
\* URL is unchanged.  With no probe the page is left as the Tab press left it.
Probe(d1, cur) ==
  IF ~ShouldProbe(d1, cur)
  THEN [probed |-> FALSE, navigated |-> FALSE, originalUrl |-> d1.url,
        dom |-> d1, activations |-> << >>, escapes |-> << >>, keys |-> << >>]
  ELSE IF PressEnter(d1).url # d1.url
  THEN [probed |-> TRUE, navigated |-> TRUE, originalUrl |-> d1.url,
        dom |-> PressEnter(d1), activations |-> << >>, escapes |-> << >>,
        keys |-> <<"Enter">>]
  ELSE ProbeSettle(d1, PressEnter(d1), cur)

\* mutant: the Escape sent after a probe is counted as an attempt
AttemptsAfterProbeCounted(p) == dialogEscapeAttempts + Len(p.escapes)

\* dialogEscapeAttempts after the probe part of a step: the Escape sent
\* after a probe is not counted
AttemptsAfterProbe(p) == dialogEscapeAttempts

\* mutant: the census is taken again after page.goto, over the elements
\* displayed then
CensusAfterGotoRecounted(d) ==
  Cardinality({k \in 1..Len(Ring) : Ring[k].box \notin d.closed})

\* totalFocusableElements after the page.goto of a probe that changed the
\* URL: focusableElements is not computed again
CensusAfterGoto(d) == totalFocusableElements

\* the ButtonActivation recorded when the probe changed the URL
NavActivation(cur) ==
  [selector |-> cur.selector, activated |-> TRUE,
   triggeredDialog |-> FALSE, expandedContent |-> FALSE,
   note |-> "Button caused URL navigation - returned to original page to continue testing"]

\* the probeLog entries of a step
ProbeEntries(cur, p) ==
  IF p.probed
  THEN <<[selector |-> cur.selector, navigated |-> p.navigated]>>
  ELSE << >>

\* the repeat test and the counter after it
SameAsPrevious(cur) == previousFocusedSelector = cur.selector
\* mutant: a different selector leaves the counter as it was
CountAfterReadNoReset(cur) ==
  IF SameAsPrevious(cur) THEN trapDetectionCount + 1 ELSE trapDetectionCount

CountAfterRead(cur) == IF SameAsPrevious(cur) THEN trapDetectionCount + 1 ELSE 0
\* mutant: the suspicion is raised one repeat earlier
TrapSuspectedOneEarlier(cur) ==
  SameAsPrevious(cur) /\ CountAfterRead(cur) >= TrapThreshold - 1

TrapSuspected(cur) == SameAsPrevious(cur) /\ CountAfterRead(cur) >= TrapThreshold

\* the DialogEscape recorded after the trap-path Escape
TrapEscapeResult(info, still) ==
  [dialogSelector |-> info, escapedSuccessfully |-> ~still,
   note |-> IF still
            THEN "Dialog did not close with Escape key - may be intentional or a keyboard trap"
            ELSE "Successfully closed dialog with Escape key"]

\* mutant: the budget of escape attempts is not consulted
TrapEscapeNoBudget(d) ==
  LET attempt == checkForDialog(d).inDialog
      still   == checkForDialog(PressEscape(d)).inDialog
  IN  IF attempt
      THEN [attempt |-> TRUE, escaped |-> ~still,
            dom |-> IF ~still /\ PressEscape(d).focus = 0
                    THEN resetFocusToStart(PressEscape(d)) ELSE PressEscape(d),
            escapes |-> <<TrapEscapeResult(checkForDialog(d).dialogInfo, still)>>,
            keys |-> <<"Escape">>]
      ELSE [attempt |-> FALSE, escaped |-> FALSE, dom |-> d,
            escapes |-> << >>, keys |-> << >>]

\* the trap-path Escape: d is the page when the trap is suspected
TrapEscape(d) ==
  LET attempt == checkForDialog(d).inDialog
                   /\ dialogEscapeAttempts < maxDialogEscapes
      still   == checkForDialog(PressEscape(d)).inDialog
  IN  IF attempt
      THEN [attempt |-> TRUE, escaped |-> ~still,
            dom |-> IF ~still /\ PressEscape(d).focus = 0
                    THEN resetFocusToStart(PressEscape(d)) ELSE PressEscape(d),
            escapes |-> <<TrapEscapeResult(checkForDialog(d).dialogInfo, still)>>,
            keys |-> <<"Escape">>]
      ELSE [attempt |-> FALSE, escaped |-> FALSE, dom |-> d,
            escapes |-> << >>, keys |-> << >>]

\* mutant: a recorded trap is raised as an exception
TrapBreakThrows(attempted) == [pc |-> "threw", i |-> i]

\* mutant: no break after the trap pushed outside a dialog
TrapBreakPlainGoesOn(attempted) ==
  IF attempted THEN [pc |-> "scan", i |-> i] ELSE [pc |-> "walk", i |-> i + 1]

\* mutant: no break after the trap pushed for a dialog that stayed open
TrapBreakDialogGoesOn(attempted) ==
  IF attempted THEN [pc |-> "walk", i |-> i + 1] ELSE [pc |-> "scan", i |-> i]

\* the break that follows keyboardTraps.push in both branches: the loop is
\* left and the counter keeps its value
TrapBreak(attempted) == [pc |-> "scan", i |-> i]

\* mutant: one issue text for both branches
TrapRecordOneText(cur, attempted) ==
  [selector |-> cur.selector, node |-> cur.node,
   issue |-> "Focus is trapped on this element - cannot Tab away after multiple attempts"]

\* the KeyboardTrap pushed when the suspicion is not escaped
TrapRecord(cur, attempted) ==
  [selector |-> cur.selector, node |-> cur.node,
   issue |-> IF attempted
             THEN "Focus is trapped in a dialog that cannot be closed with Escape key"
             ELSE "Focus is trapped on this element - cannot Tab away after multiple attempts"]

\* mutant: the walk stops as soon as the count reaches the census
WraparoundAtCensus(tested) == tested >= totalFocusableElements

\* the wraparound test made after testedElements++ of a counted step
Wraparound(tested) == tested > totalFocusableElements

\* ------------------------------------------------------ the configuration
\* Strings the code converts (WCAG_LEVEL, A11Y_ENGINE) are sequences of
\* one-character strings; values compared whole (the flags) are strings.
\* process.env.X of a variable that is not set
Unset == <<"<undefined>">>
UnsetFlag == "<undefined>"

\* a property the object literal or the call does not have
Absent == <<"<undefined>">>

WCAG_LEVEL_MAP ==
  [k \in {"2.0_A", "2.0_AA", "2.0_AAA", "2.1_A", "2.1_AA", "2.1_AAA",
          "2.2_A", "2.2_AA", "2.2_AAA"} |->
     CASE k = "2.0_A" -> [axeTags |-> <<"wcag2a">>, acePolicy |-> "WCAG_2_0"]
       [] k = "2.0_AA" -> [axeTags |-> <<"wcag2a", "wcag2aa">>,
                           acePolicy |-> "WCAG_2_0"]
       [] k = "2.0_AAA" -> [axeTags |-> <<"wcag2a", "wcag2aa", "wcag2aaa">>,
                            acePolicy |-> "WCAG_2_0"]
       [] k = "2.1_A" -> [axeTags |-> <<"wcag2a", "wcag21a">>,
                          acePolicy |-> "WCAG_2_1"]
       [] k = "2.1_AA" -> [axeTags |-> <<"wcag2a", "wcag2aa", "wcag21a", "wcag21aa">>,
                           acePolicy |-> "WCAG_2_1"]
       [] k = "2.1_AAA" -> [axeTags |-> <<"wcag2a", "wcag2aa", "wcag2aaa",
                                          "wcag21a", "wcag21aa", "wcag21aaa">>,
                            acePolicy |-> "WCAG_2_1"]
       [] k = "2.2_A" -> [axeTags |-> <<"wcag2a", "wcag21a", "wcag22a">>,
                          acePolicy |-> "WCAG_2_2"]
       [] k = "2.2_AA" -> [axeTags |-> <<"wcag2a", "wcag2aa", "wcag21a",
                                         "wcag21aa", "wcag22a", "wcag22aa">>,
                           acePolicy |-> "WCAG_2_2"]
       [] k = "2.2_AAA" -> [axeTags |-> <<"wcag2a", "wcag2aa", "wcag2aaa",
                                          "wcag21a", "wcag21aa", "wcag21aaa",
                                          "wcag22a", "wcag22aa", "wcag22aaa">>,
                            acePolicy |-> "WCAG_2_2"]]

DEFAULT_ENGINE == "axe"
DEFAULT_WCAG_LEVEL == "2.1_AA"
DEFAULT_RUN_EXPERIMENTAL == FALSE
DEFAULT_BEST_PRACTICES == TRUE
DEFAULT_RUN_PLAYWRIGHT_TESTS == FALSE
DEFAULT_PLAYWRIGHT_HEADLESS == TRUE

\* names every object inherits from Object.prototype
ObjectPrototypeProperties ==
  {"constructor", "toString", "toLocaleString", "valueOf", "hasOwnProperty",
   "isPrototypeOf", "propertyIsEnumerable", "__proto__", "__defineGetter__",
   "__defineSetter__", "__lookupGetter__", "__lookupSetter__"}

\* key in WCAG_LEVEL_MAP: the in operator also finds inherited properties
InWcagLevelMap(key) ==
  key \in DOMAIN WCAG_LEVEL_MAP \cup ObjectPrototypeProperties

trim(s) ==
  LET solid == {k \in DOMAIN s : ~IsSpace(s[k])}
  IN  IF solid = {} THEN << >> ELSE SubSeq(s, SetMin(solid), SetMax(solid))

\* s.replace(/word\s*/, ""): the first occurrence of the word goes, with the
\* white space that follows it
RemoveFirst(s, word) ==
  LET hits == {k \in 1..(Len(s) - Len(word) + 1) :
                 SubSeq(s, k, k + Len(word) - 1) = word}
  IN  IF hits = {} THEN s
      ELSE LET at == SetMin(hits)
               solid == {k \in (at + Len(word))..Len(s) : ~IsSpace(s[k])}
               next == IF solid = {} THEN Len(s) + 1 ELSE SetMin(solid)
           IN  SubSeq(s, 1, at - 1) \o SubSeq(s, next, Len(s))

\* s.replace(/\s+/g, "_") and s.replace(/_+/g, "_"): every run of characters
\* of the class becomes one underscore
CollapseRuns(s, class) ==
  LET marked == [k \in DOMAIN s |->
                   IF s[k] \notin class THEN s[k]
                   ELSE IF k > 1 /\ s[k - 1] \in class THEN "" ELSE "_"]
      kept(c) == c # ""
  IN  SelectSeq(marked, kept)

\* the four replacements of parseWcagLevel, in the order of the code
Normalize(input) ==
  CollapseRuns(
    RemoveFirst(
      CollapseRuns(
        RemoveFirst(toLowerCase(trim(input)), <<"w", "c", "a", "g">>),
        {" "}),
      <<"l", "e", "v", "e", "l">>),
    {"_"})

\* normalized.match(/^(\d)\.?(\d)?[_\s]*(a{1,3})$/i) and the key built from
\* its groups; "" when there is no match
MatchedKey(s) ==
  IF Len(s) = 0 \/ ~IsDigit(s[1]) THEN ""
  ELSE LET afterDot == IF Len(s) >= 2 /\ s[2] = "." THEN 3 ELSE 2
           hasMinor == Len(s) >= afterDot /\ IsDigit(s[afterDot])
           afterMinor == IF hasMinor THEN afterDot + 1 ELSE afterDot
           letters == {k \in afterMinor..Len(s) : s[k] \notin {"_", " "}}
           first == IF letters = {} THEN Len(s) + 1 ELSE SetMin(letters)
           level == SubSeq(s, first, Len(s))
       IN  IF /\ Len(level) \in 1..3
              /\ \A k \in DOMAIN level : level[k] \in {"a", "A"}
           THEN s[1] \o "." \o (IF hasMinor THEN s[afterDot] ELSE "0") \o "_"
                  \o Join([k \in DOMAIN level |-> "A"])
           ELSE ""

parseWcagLevel(input) ==
  IF input = Unset \/ input = << >> THEN DEFAULT_WCAG_LEVEL
  ELSE LET key == MatchedKey(Normalize(input))
       IN  IF key # "" /\ InWcagLevelMap(key) THEN key
           ELSE IF InWcagLevelMap(Join(input)) THEN Join(input)
           ELSE DEFAULT_WCAG_LEVEL

\* process.env.A11Y_ENGINE?.toLowerCase() || DEFAULT_ENGINE
EngineOf(input) ==
  IF input = Unset \/ input = << >> THEN DEFAULT_ENGINE
  ELSE Join(toLowerCase(input))

\* ACE_REPORT_LEVELS and aceReportLevels are left out: no modelled code
\* reads them
loadConfig(e) ==
  [engine |-> EngineOf(e.A11Y_ENGINE),
   wcagLevel |-> parseWcagLevel(e.WCAG_LEVEL),
   runExperimental |-> (e.RUN_EXPERIMENTAL = "true" \/ DEFAULT_RUN_EXPERIMENTAL),
   includeBestPractices |-> (e.BEST_PRACTICES # "false" /\ DEFAULT_BEST_PRACTICES),
   runPlaywrightTests |->
     (e.RUN_PLAYWRIGHT_TESTS = "true" \/ DEFAULT_RUN_PLAYWRIGHT_TESTS),
   playwrightHeadless |->
     (e.PLAYWRIGHT_HEADLESS # "false" /\ DEFAULT_PLAYWRIGHT_HEADLESS)]

\* an environment that sets none of the variables
NoEnv ==
  [A11Y_ENGINE |-> Unset, WCAG_LEVEL |-> Unset, RUN_EXPERIMENTAL |-> UnsetFlag,
   BEST_PRACTICES |-> UnsetFlag, RUN_PLAYWRIGHT_TESTS |-> UnsetFlag,
   PLAYWRIGHT_HEADLESS |-> UnsetFlag]

\* serverConfig before the module's top-level code has run
NotLoaded ==
  [engine |-> "", wcagLevel |-> "", runExperimental |-> FALSE,
   includeBestPractices |-> FALSE, runPlaywrightTests |-> FALSE,
   playwrightHeadless |-> FALSE]

\* the options of an axe.run call: runOnly and runExperimental as passed
\* (Absent / FALSE for a property the object does not have); threw when
\* building them raised
NoOptions == [runOnly |-> Absent, runExperimental |-> FALSE, threw |-> FALSE]

\* getAxeTags() of a level that is no key of the map reads .axeTags of an
\* inherited property, which is undefined, and spreading undefined throws
buildAxeOptions(config, userTags) ==
  IF userTags # Absent /\ Len(userTags) > 0
  THEN [NoOptions EXCEPT !.runOnly = userTags]
  ELSE IF config.wcagLevel \notin DOMAIN WCAG_LEVEL_MAP
  THEN [NoOptions EXCEPT !.threw = TRUE]
  ELSE [runOnly |-> WCAG_LEVEL_MAP[config.wcagLevel].axeTags
                      \o (IF config.includeBestPractices
                          THEN <<"best-practice">> ELSE << >>),
        runExperimental |-> config.runExperimental,
        threw |-> FALSE]

AxeTools == {"analyze_url", "analyze_url_json", "analyze_html",
             "analyze_html_json"}

\* what each tool hands to axe.run: analyze_url passes its tags argument
\* itself, the other three the result of buildAxeOptions
AxeRunOptions(config, tool, tags) ==
  IF tool = "analyze_url"
  THEN IF tags # Absent THEN [NoOptions EXCEPT !.runOnly = tags] ELSE NoOptions
  ELSE buildAxeOptions(config, tags)

\* no axe.run has been made yet
NoAxeCall == [tool |-> "", tags |-> Absent, options |-> NoOptions]

\* ------------------------------------------------ inputs of the configuration
LevelAlphabet == {"2", "1", ".", "_", " ", "a", "A"}

RECURSIVE CharSeqs(_)
CharSeqs(n) ==
  IF n = 0 THEN {<< >>}
  ELSE LET shorter == CharSeqs(n - 1)
       IN  shorter \cup {Append(s, c) : s \in {q \in shorter : Len(q) = n - 1},
                                        c \in LevelAlphabet}

\* each key of the map and the README's spellings, written out
KeyInputs ==
  {<<"2", ".", "0", "_", "A">>, <<"2", ".", "0", "_", "A", "A">>,
   <<"2", ".", "0", "_", "A", "A", "A">>, <<"2", ".", "1", "_", "A">>,
   <<"2", ".", "1", "_", "A", "A">>, <<"2", ".", "1", "_", "A", "A", "A">>,
   <<"2", ".", "2", "_", "A">>, <<"2", ".", "2", "_", "A", "A">>,
   <<"2", ".", "2", "_", "A", "A", "A">>}

OddLevelInputs ==
  {<<"W", "C", "A", "G", " ", "2", ".", "1", " ", "L", "e", "v", "e", "l", " ", "A", "A">>,
   <<"w", "c", "a", "g", "2", "2", "a", "a">>,
   <<"3", ".", "0", "_", "A">>, <<"2", ".", "3", "_", "A", "A">>,
   <<"A", "A">>, <<"l", "e", "v", "e", "l", " ", "a">>,
   <<"c", "o", "n", "s", "t", "r", "u", "c", "t", "o", "r">>,
   <<"t", "o", "S", "t", "r", "i", "n", "g">>}

LevelInputs == {Unset} \cup KeyInputs \cup OddLevelInputs \cup CharSeqs(MaxLevelLen)

EngineInputs ==
  {Unset, << >>, <<"a", "x", "e">>, <<"a", "c", "e">>, <<"A", "C", "E">>,
   <<"A", "x", "e">>, <<"j", "e", "s", "t">>, <<"a", "c", "e", " ">>}

FlagInputs == {UnsetFlag, "true", "false", "1"}

TagInputs == {Absent, << >>, <<"wcag2a">>, <<"wcag2aa", "best-practice">>}

EnvInputs ==
  {[NoEnv EXCEPT !.WCAG_LEVEL = l] : l \in LevelInputs}
    \cup {[NoEnv EXCEPT !.A11Y_ENGINE = e, !.RUN_PLAYWRIGHT_TESTS = f] :
            e \in EngineInputs, f \in FlagInputs}
    \cup {[NoEnv EXCEPT !.WCAG_LEVEL = l, !.RUN_EXPERIMENTAL = x,
                        !.BEST_PRACTICES = b, !.PLAYWRIGHT_HEADLESS = h] :
            l \in KeyInputs \cup {<<"c", "o", "n", "s", "t", "r", "u", "c", "t", "o", "r">>},
            x \in FlagInputs, b \in FlagInputs, h \in {UnsetFlag, "false"}}

\* --------------------------------------------------- the tool invocations
Invocations == 1..NumInvocations
Tools == {"analyze_url", "analyze_url_json", "analyze_html",
          "analyze_html_json", "get_rules"}
UrlTools == {"analyze_url", "analyze_url_json"}

\* an invocation the request handler has just been entered for
NewCall ==
  [at |-> "called", tool |-> "", engine |-> "", browser |-> "none",
   ace |-> "none", thrown |-> "", outcome |-> "", error |-> "",
   walked |-> FALSE, output |-> << >>]

\* an analyze_url invocation inside runKeyboardTests
WalkingCall ==
  [at |-> "walk", tool |-> "analyze_url", engine |-> "axe", browser |-> "open",
   ace |-> "none", thrown |-> "", outcome |-> "", error |-> "",
   walked |-> TRUE, output |-> <<"scanner findings">>]

\* const engine = args.engine || serverConfig.engine
EffectiveEngine(argEngine) ==
  IF argEngine # "" THEN argEngine ELSE serverConfig.engine

\* mutant: the flag alone decides, whatever the tool
RunsKeyboardTestsAnyTool(c) == serverConfig.runPlaywrightTests

\* does this invocation run the keyboard tests
RunsKeyboardTests(c) == c.tool \in UrlTools /\ serverConfig.runPlaywrightTests

\* return / throw out of the handler with no browser of its own to close
Leave(c, err) ==
  [c EXCEPT !.at = "ended", !.thrown = err,
            !.outcome = IF err = "" THEN "returned" ELSE "raised",
            !.error = err]

\* an awaited call inside try { ... } threw: control goes to the finally block
Throw(c, err) == [c EXCEPT !.at = "close", !.thrown = err]

\* mutant: browser.close() at the end of the try block instead of in finally
UnwindOnSuccessOnly(c) ==
  [Leave(c, c.thrown) EXCEPT !.browser = IF c.thrown = "" THEN "closed" ELSE "open"]

\* finally { await browser.close() }, then the return or the rethrow
Unwind(c) == [Leave(c, c.thrown) EXCEPT !.browser = "closed"]

\* the handler up to its first await: argument check and engine branch
Dispatch(id) ==
  /\ UNCHANGED WalkVars
  /\ calls[id].at = "called"
  /\ \E tool \in Tools, argEngine \in {"", "ace"}, hasArg \in BOOLEAN :
       LET c == [calls[id] EXCEPT !.tool = tool,
                                  !.engine = EffectiveEngine(argEngine)]
       IN  IF tool # "get_rules" /\ ~hasArg
           THEN /\ calls' = [calls EXCEPT ![id] = Leave(c, "argument is required")]
                /\ UNCHANGED aceSession
           ELSE IF c.engine = "ace"
           THEN IF tool = "get_rules"
                THEN /\ calls' = [calls EXCEPT ![id] = Leave(c, "")]
                     /\ UNCHANGED aceSession
                ELSE /\ calls' = [calls EXCEPT ![id] =
                                    [c EXCEPT !.at = "getCompliance", !.ace = "scanning"]]
                     /\ aceSession' = "open"
           ELSE /\ calls' = [calls EXCEPT ![id] = [c EXCEPT !.at = "launch"]]
                /\ UNCHANGED aceSession
  /\ UNCHANGED <<env, axeCall, route, serverConfig, violations>>

\* runACEAnalysis: aChecker.getCompliance resolves or throws
GetCompliance(id) ==
  /\ UNCHANGED WalkVars
  /\ calls[id].at = "getCompliance"
  /\ \E ok \in BOOLEAN :
       calls' = [calls EXCEPT ![id] =
                   [@ EXCEPT !.at = "aceClose",
                             !.thrown = IF ok THEN "" ELSE "compliance scan failed"]]
  /\ UNCHANGED <<env, axeCall, route, serverConfig, aceSession, violations>>

\* runACEAnalysis: finally { await aChecker.close() }, then what follows it
AceClose(id) ==
  /\ UNCHANGED WalkVars
  /\ calls[id].at = "aceClose"
  /\ aceSession' = "closed"
  /\ LET c == [calls[id] EXCEPT !.ace = "closed"]
         scanned == [c EXCEPT !.output = <<"scanner findings">>]
     IN  calls' = [calls EXCEPT ![id] =
                     IF c.thrown # "" THEN Leave(c, c.thrown)
                     ELSE IF RunsKeyboardTests(c) THEN [scanned EXCEPT !.at = "launch"]
                     ELSE Leave(scanned, "")]
  /\ UNCHANGED <<env, axeCall, route, serverConfig, violations>>

\* chromium.launch, before the try block
Launch(id) ==
  /\ UNCHANGED WalkVars
  /\ calls[id].at = "launch"
  /\ \E ok \in BOOLEAN :
       calls' = [calls EXCEPT ![id] =
                   IF ok THEN [@ EXCEPT !.at = "load", !.browser = "open"]
                   ELSE Leave(@, "browser launch failed")]
  /\ UNCHANGED <<env, axeCall, route, serverConfig, aceSession, violations>>

\* browser.newPage and page.goto / page.setContent within NAVIGATION_TIMEOUT
Load(id) ==
  /\ UNCHANGED WalkVars
  /\ calls[id].at = "load"
  /\ \E ok \in BOOLEAN :
       calls' = [calls EXCEPT ![id] =
                   IF ~ok THEN Throw(@, "navigation timeout")
                   ELSE IF @.engine = "ace" THEN [@ EXCEPT !.at = "walk"]
                   ELSE [@ EXCEPT !.at = "inject"]]
  /\ UNCHANGED <<env, axeCall, route, serverConfig, aceSession, violations>>

\* page.addScriptTag({ path: AXE_CORE_PATH })
Inject(id) ==
  /\ UNCHANGED WalkVars
  /\ calls[id].at = "inject"
  /\ \E ok \in BOOLEAN :
       calls' = [calls EXCEPT ![id] =
                   IF ok THEN [@ EXCEPT !.at = "axe"]
                   ELSE Throw(@, "script injection failed")]
  /\ UNCHANGED <<env, axeCall, route, serverConfig, aceSession, violations>>

\* page.evaluate of axe.run / axe.getRules, then the keyboard tests if enabled
AxeRun(id) ==
  /\ UNCHANGED WalkVars
  /\ calls[id].at = "axe"
  /\ \E ok \in BOOLEAN :
       calls' = [calls EXCEPT ![id] =
                   IF ~ok THEN Throw(@, "scanner failed")
                   ELSE LET scanned ==
                              [@ EXCEPT !.output =
                                 <<IF calls[id].tool = "get_rules" THEN "rules"
                                   ELSE "scanner findings">>]
                        IN  IF RunsKeyboardTests(@) THEN [scanned EXCEPT !.at = "walk"]
                            ELSE [scanned EXCEPT !.at = "close"]]
  /\ UNCHANGED <<env, axeCall, route, serverConfig, aceSession, violations>>

\* runKeyboardTests(page) returns its result or throws
KeyboardTests(id) ==
  /\ UNCHANGED WalkVars
  /\ calls[id].at = "walk"
  /\ \E ok \in BOOLEAN :
       calls' = [calls EXCEPT ![id] =
                   IF ok THEN [@ EXCEPT !.at = "close", !.walked = TRUE,
                                        !.output = Append(@, "keyboard findings")]
                   ELSE [Throw(@, "keyboard walk threw") EXCEPT !.walked = TRUE]]
  /\ UNCHANGED <<env, axeCall, route, serverConfig, aceSession, violations>>

\* the finally block of the handler
CloseBrowser(id) ==
  /\ UNCHANGED WalkVars
  /\ calls[id].at = "close"
  /\ calls' = [calls EXCEPT ![id] = Unwind(@)]
  /\ UNCHANGED <<env, axeCall, route, serverConfig, aceSession, violations>>

\* ---------------------------------------------------------------- actions
\* the state when the for loop is entered: census taken, result initialised,
\* focus reset to the body
WalkStart ==
  /\ dom = [focus |-> 0, closed |-> {}, openDlg |-> 0, toggled |-> {},
            url |-> OriginalUrl]
  /\ pc = "walk"
  /\ i = 0
  /\ totalFocusableElements = Census(page.ring)
  /\ testedElements = 0
  /\ keyboardTraps = << >>
  /\ unfocusableInteractive = << >>
  /\ focusOrder = << >>
  /\ dialogEscapes = << >>
  /\ buttonActivations = << >>
  /\ previousFocusedSelector = NoSelector
  /\ trapDetectionCount = 0
  /\ dialogEscapeAttempts = 0
  /\ navigationTriggeringSelectors = {}
  /\ keyLog = << >>
  /\ probeLog = << >>
  /\ readLog = << >>

\* a walk on any page of the catalogue, run by one analyze_url invocation
\* with keyboard tests enabled
Init ==
  /\ page \in Pages
  /\ WalkStart
  /\ env = [NoEnv EXCEPT !.RUN_PLAYWRIGHT_TESTS = "true"]
  /\ serverConfig = loadConfig(env)
  /\ axeCall = NoAxeCall
  /\ route = RouteInstalled
  /\ calls = [id \in Invocations |-> IF id = 1 THEN WalkingCall ELSE NewCall]
  /\ aceSession = "closed"
  /\ violations = << >>

\* the loop is running; page.route was awaited before it
Walking == pc = "walk" /\ i < maxTabs /\ route.installed

\* mutant: the repeat counter survives a step on the body
BodyStepCountNoReset == trapDetectionCount

\* the repeat counter after a step on the body
BodyStepCount == 0

\* Tab left focus on the body or root (lines 777-781)
BodyStep ==
  /\ UNCHANGED toolVars
  /\ Walking
  /\ currentFocused.selector = NoSelector
  /\ dom' = PressTab(dom)
  /\ keyLog' = Append(keyLog, "Tab")
  /\ readLog' = Append(readLog, [selector |-> NoSelector, branch |-> "body"])
  /\ trapDetectionCount' = BodyStepCount
  /\ previousFocusedSelector' = NoSelector
  /\ i' = i + 1
  /\ UNCHANGED <<page, pc, totalFocusableElements, testedElements,
                 keyboardTraps, unfocusableInteractive, focusOrder,
                 dialogEscapes, buttonActivations, dialogEscapeAttempts,
                 navigationTriggeringSelectors, probeLog>>

\* the probe changed the URL and page.goto brought the page back (612-641)
NavStep ==
  /\ UNCHANGED toolVars
  /\ Walking
  /\ \E cur \in {currentFocused} : \E p \in {Probe(PressTab(dom), cur)} :
     \E g \in {Goto(p.dom, p.originalUrl)} :
       /\ cur.selector # NoSelector /\ p.navigated /\ g.ok
       /\ focusOrder' = Append(focusOrder, FocusItem(cur))
       /\ navigationTriggeringSelectors' =
            navigationTriggeringSelectors \cup {cur.selector}
       /\ dom' = resetFocusToStart(g.dom)
       /\ totalFocusableElements' = CensusAfterGoto(g.dom)
       /\ buttonActivations' = Append(buttonActivations, NavActivation(cur))
       /\ previousFocusedSelector' = NoSelector
       /\ trapDetectionCount' = 0
       /\ testedElements' = testedElements + 1
       /\ keyLog' = Append(keyLog, "Tab") \o p.keys
       /\ probeLog' = probeLog \o ProbeEntries(cur, p)
       /\ readLog' = Append(readLog, [selector |-> cur.selector, branch |-> "navigated"])
       /\ i' = i + 1
  /\ UNCHANGED <<page, pc, keyboardTraps, unfocusableInteractive, dialogEscapes,
                 dialogEscapeAttempts>>

\* the probe changed the URL and page.goto was aborted: the rejection leaves
\* runKeyboardTests (612-619)
NavAbortStep ==
  /\ UNCHANGED toolVars
  /\ Walking
  /\ \E cur \in {currentFocused} : \E p \in {Probe(PressTab(dom), cur)} :
     \E g \in {Goto(p.dom, p.originalUrl)} :
       /\ cur.selector # NoSelector /\ p.navigated /\ ~g.ok
       /\ focusOrder' = Append(focusOrder, FocusItem(cur))
       /\ navigationTriggeringSelectors' =
            navigationTriggeringSelectors \cup {cur.selector}
       /\ dom' = g.dom
       /\ keyLog' = Append(keyLog, "Tab") \o p.keys
       /\ probeLog' = probeLog \o ProbeEntries(cur, p)
       /\ readLog' = Append(readLog, [selector |-> cur.selector, branch |-> "navigated"])
       /\ pc' = "threw"
  /\ UNCHANGED <<page, i, totalFocusableElements, testedElements,
                 keyboardTraps, unfocusableInteractive, dialogEscapes,
                 buttonActivations, previousFocusedSelector,
                 trapDetectionCount, dialogEscapeAttempts>>

\* trap suspected, Escape closed the dialog: continue (710-746)
EscapedStep ==
  /\ UNCHANGED toolVars
  /\ Walking
  /\ \E cur \in {currentFocused} : \E p \in {Probe(PressTab(dom), cur)} :
     \E t \in {TrapEscape(p.dom)} :
       /\ cur.selector # NoSelector /\ ~p.navigated
       /\ TrapSuspected(cur) /\ t.escaped
       /\ focusOrder' = Append(focusOrder, FocusItem(cur))
       /\ buttonActivations' = buttonActivations \o p.activations
       /\ dialogEscapes' = dialogEscapes \o p.escapes \o t.escapes
       /\ dialogEscapeAttempts' = AttemptsAfterProbe(p) + 1
       /\ dom' = t.dom
       /\ trapDetectionCount' = 0
       /\ previousFocusedSelector' = NoSelector
       /\ keyLog' = Append(keyLog, "Tab") \o p.keys \o t.keys
       /\ probeLog' = probeLog \o ProbeEntries(cur, p)
       /\ readLog' = Append(readLog, [selector |-> cur.selector, branch |-> "escaped"])
       /\ i' = i + 1
  /\ UNCHANGED <<page, pc, totalFocusableElements, testedElements,
                 keyboardTraps, unfocusableInteractive,
                 navigationTriggeringSelectors>>

\* trap suspected and not escaped: record the trap and break (747-764)
TrapStep ==
  /\ UNCHANGED toolVars
  /\ Walking
  /\ \E cur \in {currentFocused} : \E p \in {Probe(PressTab(dom), cur)} :
     \E t \in {TrapEscape(p.dom)} :
       /\ cur.selector # NoSelector /\ ~p.navigated
       /\ TrapSuspected(cur) /\ ~t.escaped
       /\ focusOrder' = Append(focusOrder, FocusItem(cur))
       /\ buttonActivations' = buttonActivations \o p.activations
       /\ dialogEscapes' = dialogEscapes \o p.escapes \o t.escapes
       /\ dialogEscapeAttempts' =
            AttemptsAfterProbe(p) + (IF t.attempt THEN 1 ELSE 0)
       /\ dom' = t.dom
       /\ trapDetectionCount' = CountAfterRead(cur)
       /\ keyboardTraps' = Append(keyboardTraps, TrapRecord(cur, t.attempt))
       /\ keyLog' = Append(keyLog, "Tab") \o p.keys \o t.keys
       /\ probeLog' = probeLog \o ProbeEntries(cur, p)
       /\ readLog' = Append(readLog, [selector |-> cur.selector, branch |-> "trap"])
       /\ pc' = TrapBreak(t.attempt).pc
       /\ i' = TrapBreak(t.attempt).i
  /\ UNCHANGED <<page, totalFocusableElements, testedElements,
                 unfocusableInteractive, previousFocusedSelector,
                 navigationTriggeringSelectors>>

\* an element step that is counted, with the wraparound test (705-776)
CountedStep ==
  /\ UNCHANGED toolVars
  /\ Walking
  /\ \E cur \in {currentFocused} : \E p \in {Probe(PressTab(dom), cur)} :
       /\ cur.selector # NoSelector /\ ~p.navigated /\ ~TrapSuspected(cur)
       /\ focusOrder' = Append(focusOrder, FocusItem(cur))
       /\ buttonActivations' = buttonActivations \o p.activations
       /\ dialogEscapes' = dialogEscapes \o p.escapes
       /\ dom' = p.dom
       /\ trapDetectionCount' = CountAfterRead(cur)
       /\ previousFocusedSelector' = cur.selector
       /\ dialogEscapeAttempts' = AttemptsAfterProbe(p)
       /\ testedElements' = testedElements + 1
       /\ keyLog' = Append(keyLog, "Tab") \o p.keys
       /\ probeLog' = probeLog \o ProbeEntries(cur, p)
       /\ readLog' = Append(readLog, [selector |-> cur.selector, branch |-> "counted"])
       /\ IF Wraparound(testedElements + 1)
          THEN pc' = "scan" /\ i' = i
          ELSE pc' = "walk" /\ i' = i + 1
  /\ UNCHANGED <<page, totalFocusableElements, keyboardTraps,
                 unfocusableInteractive, navigationTriggeringSelectors>>

\* the for loop's condition fails (561)
BudgetExhausted ==
  /\ UNCHANGED toolVars
  /\ pc = "walk" /\ ~(i < maxTabs)
  /\ pc' = "scan"
  /\ UNCHANGED <<page, dom, i, totalFocusableElements, testedElements,
                 keyboardTraps, unfocusableInteractive, focusOrder,
                 dialogEscapes, buttonActivations, previousFocusedSelector,
                 trapDetectionCount, dialogEscapeAttempts,
                 navigationTriggeringSelectors, keyLog, probeLog, readLog>>

\* the scan for unfocusable interactive elements and the return (784-818)
Scan ==
  /\ UNCHANGED toolVars
  /\ pc = "scan"
  /\ unfocusableInteractive' = UnfocusableScan(page.inert)
  /\ pc' = "done"
  /\ UNCHANGED <<page, dom, i, totalFocusableElements, testedElements,
                 keyboardTraps, focusOrder, dialogEscapes, buttonActivations,
                 previousFocusedSelector, trapDetectionCount,
                 dialogEscapeAttempts, navigationTriggeringSelectors,
                 keyLog, probeLog, readLog>>

Next ==
  \/ BodyStep
  \/ NavStep
  \/ NavAbortStep
  \/ EscapedStep
  \/ TrapStep
  \/ CountedStep
  \/ BudgetExhausted
  \/ Scan

Spec == Init /\ [][Next]_vars

\* every await of the walk completes, so the loop keeps taking steps
FairSpec == Spec /\ WF_vars(Next)

\* --------------------------------------- the request handler, interleaved
\* the walk's variables are those of a walk not yet started on an empty page
ToolInit ==
  /\ page = [ring |-> << >>, inert |-> << >>]
  /\ WalkStart
  /\ env \in {[NoEnv EXCEPT !.A11Y_ENGINE = e, !.RUN_PLAYWRIGHT_TESTS = f] :
               e \in {Unset, <<"a", "c", "e">>}, f \in {UnsetFlag, "true"}}
  /\ serverConfig = loadConfig(env)
  /\ axeCall = NoAxeCall
  /\ route = RouteInstalled
  /\ calls = [id \in Invocations |-> NewCall]
  /\ aceSession = "closed"
  /\ violations = << >>

\* the handler is async: invocations interleave at every await
ToolNext ==
  \/ \E id \in Invocations : Dispatch(id)
  \/ \E id \in Invocations : GetCompliance(id)
  \/ \E id \in Invocations : AceClose(id)
  \/ \E id \in Invocations : Launch(id)
  \/ \E id \in Invocations : Load(id)
  \/ \E id \in Invocations : Inject(id)
  \/ \E id \in Invocations : AxeRun(id)
  \/ \E id \in Invocations : KeyboardTests(id)
  \/ \E id \in Invocations : CloseBrowser(id)

ToolSpec == ToolInit /\ [][ToolNext]_vars

\* ------------------------------------- start-up and the options of a scan
\* the module is being loaded: the environment is given, nothing has run
ConfigInit ==
  /\ page = [ring |-> << >>, inert |-> << >>]
  /\ WalkStart
  /\ env \in EnvInputs
  /\ serverConfig = NotLoaded
  /\ axeCall = NoAxeCall
  /\ route = RouteInstalled
  /\ calls = [id \in Invocations |-> NewCall]
  /\ aceSession = "closed"
  /\ violations = << >>

\* const serverConfig = loadConfig()
LoadConfig ==
  /\ UNCHANGED WalkVars
  /\ serverConfig = NotLoaded
  /\ serverConfig' = loadConfig(env)
  /\ UNCHANGED <<env, axeCall, route, calls, aceSession, violations>>

\* the axe branch of a scanning tool, called without an engine argument,
\* up to its axe.run
RunAxe(tool, tags) ==
  /\ UNCHANGED WalkVars
  /\ serverConfig # NotLoaded
  /\ axeCall = NoAxeCall
  /\ EffectiveEngine("") # "ace"
  /\ axeCall' = [tool |-> tool, tags |-> tags,
                 options |-> AxeRunOptions(serverConfig, tool, tags)]
  /\ UNCHANGED <<env, route, serverConfig, calls, aceSession, violations>>

ConfigNext ==
  \/ LoadConfig
  \/ \E tool \in AxeTools, tags \in TagInputs : RunAxe(tool, tags)

ConfigSpec == ConfigInit /\ [][ConfigNext]_vars

\* ------------------------------------------------- the navigation filter
\* runKeyboardTests has been entered on a page with nothing to focus; the
\* browser makes requests of its own at any time
RouteInit ==
  /\ page = [ring |-> << >>, inert |-> << >>]
  /\ WalkStart
  /\ env = [NoEnv EXCEPT !.RUN_PLAYWRIGHT_TESTS = "true"]
  /\ serverConfig = loadConfig(env)
  /\ axeCall = NoAxeCall
  /\ route = NoRoute
  /\ calls = [id \in Invocations |-> IF id = 1 THEN WalkingCall ELSE NewCall]
  /\ aceSession = "closed"
  /\ violations = << >>

\* await page.route('**/*', handler)
InstallRoute ==
  /\ UNCHANGED WalkVars
  /\ ~route.installed
  /\ route' = [route EXCEPT !.installed = TRUE]
  /\ UNCHANGED <<env, serverConfig, axeCall, calls, aceSession, violations>>

\* the browser makes a request: the handler runs for it when it is installed
\* on the request's page, and the request goes through untouched otherwise
Request(request) ==
  /\ UNCHANGED WalkVars
  /\ Len(route.log) < MaxRequests
  /\ route' = [route EXCEPT !.log =
                  Append(@, [request |-> request, currentUrl |-> dom.url,
                             routed |-> route.installed /\ request.page = route.page,
                             calls |-> IF route.installed /\ request.page = route.page
                                       THEN routeHandler(dom.url, request)
                                       ELSE << >>])]
  /\ UNCHANGED <<env, serverConfig, axeCall, calls, aceSession, violations>>

RouteNext ==
  \/ InstallRoute
  \/ \E request \in Requests : Request(request)
  \/ BodyStep
  \/ BudgetExhausted
  \/ Scan

RouteSpec == RouteInit /\ [][RouteNext]_vars

\* ------------------------------------------- the JSON form of a result
\* mutant: every DialogEscape counts, closed or not
keyboardToAxeViolationsFormatAllEscapes(result) ==
  LET trapNode(t) == [target |-> <<t.selector>>, failureSummary |-> t.issue]
      dialogNode(d) == [target |-> <<d.dialogSelector>>, failureSummary |-> d.note]
      elNode(e) ==
        [target |-> <<e.selector>>,
         failureSummary |->
           "Element with role=\"" \o (IF e.role # "" THEN e.role ELSE "none")
             \o "\" has interactive behavior but is not keyboard focusable. Add tabindex=\"0\" or use a native interactive element."]
      map(f(_), q) == [k \in 1..Len(q) |-> f(q[k])]
  IN  (IF Len(result.keyboardTraps) > 0
       THEN <<[id |-> "keyboard-trap", impact |-> "critical",
               nodes |-> map(trapNode, result.keyboardTraps)]>>
       ELSE << >>)
      \o (IF Len(result.dialogEscapes) > 0
          THEN <<[id |-> "dialog-not-escapable", impact |-> "serious",
                  nodes |-> map(dialogNode, result.dialogEscapes)]>>
          ELSE << >>)
      \o (IF Len(result.unfocusableInteractive) > 0
          THEN <<[id |-> "interactive-not-focusable", impact |-> "serious",
                  nodes |-> map(elNode, result.unfocusableInteractive)]>>
          ELSE << >>)

\* keyboardToAxeViolationsFormat: the violation records of a result (of a
\* record: id, impact and nodes; of a node: target and failureSummary; the
\* html strings are copied through like the selectors)
keyboardToAxeViolationsFormat(result) ==
  LET failed(d) == ~d.escapedSuccessfully
      failedDialogEscapes == SelectSeq(result.dialogEscapes, failed)
      trapNode(t) == [target |-> <<t.selector>>, failureSummary |-> t.issue]
      dialogNode(d) == [target |-> <<d.dialogSelector>>, failureSummary |-> d.note]
      elNode(e) ==
        [target |-> <<e.selector>>,
         failureSummary |->
           "Element with role=\"" \o (IF e.role # "" THEN e.role ELSE "none")
             \o "\" has interactive behavior but is not keyboard focusable. Add tabindex=\"0\" or use a native interactive element."]
      map(f(_), q) == [k \in 1..Len(q) |-> f(q[k])]
  IN  (IF Len(result.keyboardTraps) > 0
       THEN <<[id |-> "keyboard-trap", impact |-> "critical",
               nodes |-> map(trapNode, result.keyboardTraps)]>>
       ELSE << >>)
      \o (IF Len(failedDialogEscapes) > 0
          THEN <<[id |-> "dialog-not-escapable", impact |-> "serious",
                  nodes |-> map(dialogNode, failedDialogEscapes)]>>
          ELSE << >>)
      \o (IF Len(result.unfocusableInteractive) > 0
          THEN <<[id |-> "interactive-not-focusable", impact |-> "serious",
                  nodes |-> map(elNode, result.unfocusableInteractive)]>>
          ELSE << >>)

\* results runKeyboardTests can hand over: at most one trap, any mix of
\* closed and unclosed dialogs, any elements found by the scan
SeqsUpTo(S, n) == UNION {[1..m -> S] : m \in 0..n}
SampleTraps ==
  {TrapRecord([selector |-> "div.trap", node |-> 1], FALSE),
   TrapRecord([selector |-> "a", node |-> 2], TRUE)}
SampleEscapes ==
  {TrapEscapeResult("div.overlay", FALSE), TrapEscapeResult("div.overlay", TRUE),
   ProbeEscapeResult("div.modal", FALSE), ProbeEscapeResult("div.modal", TRUE)}
SampleUnfocusable ==
  {[selector |-> "div", role |-> "button"], [selector |-> "span.x", role |-> ""]}
SampleActivations ==
  {<< >>, <<Activation([selector |-> "button", node |-> 1], FALSE, FALSE)>>}

FormatInit ==
  /\ page = [ring |-> << >>, inert |-> << >>]
  /\ dom = [focus |-> 0, closed |-> {}, openDlg |-> 0, toggled |-> {},
            url |-> OriginalUrl]
  /\ pc = "done"
  /\ i = 0
  /\ totalFocusableElements = 0
  /\ testedElements = 0
  /\ keyboardTraps \in SeqsUpTo(SampleTraps, 1)
  /\ unfocusableInteractive \in SeqsUpTo(SampleUnfocusable, MaxEntries)
  /\ focusOrder = << >>
  /\ dialogEscapes \in SeqsUpTo(SampleEscapes, MaxEntries)
  /\ buttonActivations \in SampleActivations
  /\ previousFocusedSelector = NoSelector
  /\ trapDetectionCount = 0
  /\ dialogEscapeAttempts = 0
  /\ navigationTriggeringSelectors = {}
  /\ keyLog = << >>
  /\ probeLog = << >>
  /\ readLog = << >>
  /\ env = [NoEnv EXCEPT !.RUN_PLAYWRIGHT_TESTS = "true"]
  /\ serverConfig = loadConfig(env)
  /\ axeCall = NoAxeCall
  /\ route = RouteInstalled
  /\ calls = [id \in Invocations |->
                IF id = 1 THEN [WalkingCall EXCEPT !.tool = "analyze_url_json"]
                ELSE NewCall]
  /\ aceSession = "closed"
  /\ violations = << >>

\* the result runKeyboardTests returned
Result ==
  [totalFocusableElements |-> totalFocusableElements,
   testedElements |-> testedElements, keyboardTraps |-> keyboardTraps,
   unfocusableInteractive |-> unfocusableInteractive,
   focusOrder |-> focusOrder, dialogEscapes |-> dialogEscapes,
   buttonActivations |-> buttonActivations]

\* analyze_url_json: keyboardViolations = keyboardToAxeViolationsFormat(...)
Convert ==
  /\ pc = "done"
  /\ violations' = keyboardToAxeViolationsFormat(Result)
  /\ pc' = "converted"
  /\ UNCHANGED <<page, dom, i, totalFocusableElements, testedElements,
                 keyboardTraps, unfocusableInteractive, focusOrder,
                 dialogEscapes, buttonActivations, previousFocusedSelector,
                 trapDetectionCount, dialogEscapeAttempts,
                 navigationTriggeringSelectors, keyLog, probeLog, readLog,
                 env, axeCall, route, serverConfig, calls, aceSession>>

FormatNext == Convert

FormatSpec == FormatInit /\ [][FormatNext]_vars

\* ----------------------------------------------------------------- claims
\* number of Tab presses sent so far
TabCount == Cardinality({k \in DOMAIN keyLog : keyLog[k] = "Tab"})

\* number of Escape presses sent so far
EscapeCount == Cardinality({k \in DOMAIN keyLog : keyLog[k] = "Escape"})

\* DialogEscape records produced by the trap path (told apart by their note)
TrapPathNotes ==
  {"Dialog did not close with Escape key - may be intentional or a keyboard trap",
   "Successfully closed dialog with Escape key"}
TrapPathEscapes ==
  Cardinality({k \in DOMAIN dialogEscapes : dialogEscapes[k].note \in TrapPathNotes})

\* C1 (as claimed): in every state testedElements is at most
\* totalFocusableElements + 1.
C1_TestedWithinCensus == testedElements <= totalFocusableElements + 1

\* C2 (as claimed): the index fields of focusOrder, in append order, are
\* exactly 1, 2, 3, ...
C2_IndicesSequential ==
  \A k \in DOMAIN focusOrder : focusOrder[k].index = k

\* C3 (as claimed): at the end of every walk step focusOrder.length is at
\* most testedElements.
C3_FocusOrderWithinTested ==
  pc # "threw" => Len(focusOrder) <= testedElements

\* C4: once a KeyboardTrap is recorded no key is sent and nothing is
\* appended to focusOrder, buttonActivations, dialogEscapes or keyboardTraps;
\* the trap step leaves the loop and the only step left is the scan.
C4_TrapEndsWalk ==
  [][ /\ (Len(keyboardTraps) = 0 /\ Len(keyboardTraps') > 0) => pc' = "scan"
      /\ Len(keyboardTraps) > 0 =>
           /\ pc = "scan" /\ pc' = "done"
           /\ keyLog' = keyLog
           /\ focusOrder' = focusOrder
           /\ buttonActivations' = buttonActivations
           /\ dialogEscapes' = dialogEscapes
           /\ keyboardTraps' = keyboardTraps ]_vars

C4_Witness ==
  /\ pc = "done" /\ Len(keyboardTraps) = 1
  /\ keyboardTraps[1].issue =
       "Focus is trapped on this element - cannot Tab away after multiple attempts"
  /\ TabCount < maxTabs

\* C5: keyboardTraps never holds more than one entry.
C5_AtMostOneTrap == Len(keyboardTraps) <= 1

C5_Witness ==
  /\ pc = "done" /\ Len(keyboardTraps) = 1
  /\ keyboardTraps[1].issue =
       "Focus is trapped in a dialog that cannot be closed with Escape key"

\* C6 (as claimed): a KeyboardTrap is recorded only when the reads that
\* reached the threshold were all of one and the same element.
C6_TrapOnlySameElement ==
  Len(keyboardTraps) > 0 =>
    LET n == Len(focusOrder) IN
      /\ n >= TrapThreshold + 1
      /\ \A k \in (n - TrapThreshold)..n : focusOrder[k].node = focusOrder[n].node

\* C7: at most min(totalFocusableElements + 10, 150) Tab presses are sent,
\* every iteration sends one Tab and, when the loop goes on, adds one to the
\* loop counter, testedElements and focusOrder.length stay within the same
\* bound, and the walk ends: every step lowers a measure that is bounded
\* below.
C7_StepBudget == Min(totalFocusableElements + 10, 150)
C7_Measure ==
  CASE pc = "walk" -> (C7_StepBudget - i) + 2
    [] pc = "scan" -> 1
    [] OTHER       -> 0
C7_WalkTerminates ==
  /\ [](/\ TabCount <= C7_StepBudget
        /\ testedElements <= C7_StepBudget
        /\ Len(focusOrder) <= C7_StepBudget
        /\ i <= C7_StepBudget
        /\ pc = "walk" => TabCount = i
        /\ C7_Measure >= 0)
  /\ [][pc = "walk" =>
          \/ TabCount' = TabCount + 1 /\ i' = i + 1 /\ pc' = "walk"
          \/ TabCount' = TabCount + 1 /\ i' = i /\ pc' \in {"scan", "threw"}
          \/ TabCount' = TabCount /\ i' = i /\ i = C7_StepBudget /\ pc' = "scan"]_vars
  /\ [][C7_Measure' < C7_Measure]_vars

C7_Witness ==
  /\ pc = "done" /\ TabCount = 150 /\ totalFocusableElements + 10 > 150
  /\ Len(keyboardTraps) = 0

\* C8: a completed step that reads a selector different from the previous step's, and
\* a body step, set the repeat counter to 0; a positive counter c means the
\* last c + 1 reads were consecutive element steps with one selector.
C8_CounterResets ==
  /\ [](pc # "threw" /\ trapDetectionCount > 0 =>
          LET n == Len(focusOrder) IN
            /\ n >= trapDetectionCount + 1
            /\ \A k \in (n - trapDetectionCount)..n :
                 focusOrder[k].selector = focusOrder[n].selector)
  /\ [][TabCount' # TabCount /\ pc' # "threw" =>
          IF Len(focusOrder') > Len(focusOrder)
          THEN focusOrder'[Len(focusOrder')].selector # previousFocusedSelector
                 => trapDetectionCount' = 0
          ELSE trapDetectionCount' = 0]_vars

C8_Witness ==
  LET n == Len(focusOrder) IN
    /\ n >= 3 /\ pc = "walk"
    /\ focusOrder[n].selector = focusOrder[n - 2].selector
    /\ focusOrder[n].selector # focusOrder[n - 1].selector
    /\ focusOrder[n].index = focusOrder[n - 2].index + 2
    /\ previousFocusedSelector = focusOrder[n].selector
    /\ trapDetectionCount = 0

\* C9: at most 5 DialogEscape records come from the trap path; with the
\* budget of 5 used up, a step that suspects a trap (inside a dialog or
\* not) sends no trap-path Escape, so every Escape of the step is one that
\* followed a probe, records a KeyboardTrap and leaves the loop.
C9_EscapeBudget ==
  /\ [](TrapPathEscapes <= 5 /\ dialogEscapeAttempts = TrapPathEscapes)
  /\ [][(/\ TrapPathEscapes = 5
         /\ TabCount' # TabCount
         /\ Len(focusOrder') > Len(focusOrder)
         /\ previousFocusedSelector = focusOrder'[Len(focusOrder')].selector
         /\ trapDetectionCount >= 2
         /\ navigationTriggeringSelectors' = navigationTriggeringSelectors)
        => /\ TrapPathEscapes' = TrapPathEscapes
           /\ EscapeCount' - EscapeCount = Len(dialogEscapes') - Len(dialogEscapes)
           /\ Len(keyboardTraps') = Len(keyboardTraps) + 1
           /\ pc' = "scan"]_vars

C9_Witness ==
  /\ pc = "done" /\ TrapPathEscapes = 5 /\ Len(keyboardTraps) = 1
  /\ checkForDialog(dom).inDialog
  /\ keyboardTraps[1].issue =
       "Focus is trapped on this element - cannot Tab away after multiple attempts"

\* C10: the memo set only grows and holds exactly the selectors whose probe
\* changed the URL; a selector in it is never probed again and gets no
\* further ButtonActivation.
C10_NavigatedSelectors ==
  {probeLog[k].selector : k \in {j \in DOMAIN probeLog : probeLog[j].navigated}}
C10_Memoization ==
  /\ [](navigationTriggeringSelectors = C10_NavigatedSelectors)
  /\ [][/\ navigationTriggeringSelectors \subseteq navigationTriggeringSelectors'
        /\ \A s \in navigationTriggeringSelectors :
             /\ \A k \in DOMAIN probeLog' :
                  probeLog'[k].selector = s => k \in DOMAIN probeLog
             /\ \A k \in DOMAIN buttonActivations' :
                  buttonActivations'[k].selector = s
                    => k \in DOMAIN buttonActivations]_vars

C10_Witness ==
  \E j, k \in DOMAIN focusOrder :
    /\ j < k
    /\ focusOrder[j].selector = focusOrder[k].selector
    /\ focusOrder[j].node # focusOrder[k].node
    /\ focusOrder[k].selector \in navigationTriggeringSelectors
    /\ Cardinality({n \in DOMAIN probeLog :
                      probeLog[n].selector = focusOrder[k].selector}) = 1
    /\ Cardinality({n \in DOMAIN buttonActivations :
                      buttonActivations[n].selector = focusOrder[k].selector}) = 1

\* ------------------------------------------------------ scenarios (C11-C15)
\* C11 (as claimed): Scenario A.  On a page whose only focusable element is
\* one plain anchor the returned result has exactly one FocusOrderItem, no
\* KeyboardTrap and no ButtonActivation, and the walk ended by wraparound
\* after the second Tab left focus on the body.
C11_OneFocusOrderItem ==
  (page.ring = <<LinkA>> /\ pc = "done") =>
    /\ Len(focusOrder) = 1
    /\ keyboardTraps = << >> /\ buttonActivations = << >>
    /\ keyLog = <<"Tab", "Tab", "Tab">>
    /\ testedElements > totalFocusableElements

\* C11 (amended): the result has exactly two FocusOrderItems, both for the
\* anchor (indices 1 and 2: the anchor is read again after the body), no
\* KeyboardTrap, no ButtonActivation and no DialogEscape; three Tabs were
\* sent and the walk ended by wraparound (testedElements = 2 > census = 1),
\* not by the step budget.
C11_ScenarioA ==
  (page.ring = <<LinkA>> /\ pc \in {"scan", "done"}) =>
    /\ totalFocusableElements = 1
    /\ Len(focusOrder) = 2
    /\ \A k \in 1..2 : /\ focusOrder[k].selector = "a"
                        /\ focusOrder[k].node = 1
                        /\ focusOrder[k].index = k
    /\ keyboardTraps = << >> /\ buttonActivations = << >>
    /\ dialogEscapes = << >> /\ probeLog = << >>
    /\ keyLog = <<"Tab", "Tab", "Tab">>
    /\ testedElements = 2 /\ i < maxTabs

C11_Witness ==
  /\ page.ring = <<LinkA>> /\ pc = "done"
  /\ Len(focusOrder) = 2 /\ TabCount = 3 /\ dom.focus = 1

\* C12 (as claimed): Scenario B.  On a page whose only focusable element is
\* a div with tabindex 0 that takes focus back whenever it loses it, the
\* walk records exactly one KeyboardTrap for that element, saying focus
\* cannot be tabbed away, and stops there.
C12_ScenarioB ==
  (page.ring = <<Sticky>> /\ pc = "done") =>
    /\ Len(keyboardTraps) = 1
    /\ keyboardTraps[1].selector = "div.trap"
    /\ keyboardTraps[1].issue =
         "Focus is trapped on this element - cannot Tab away after multiple attempts"

\* pages made of plain anchors and exactly one button whose Enter opens a
\* dialog that Escape closes
C13_Page ==
  /\ \A k \in DOMAIN page.ring : page.ring[k] \in {LinkA, BtnDlgOk}
  /\ Cardinality({k \in DOMAIN page.ring : page.ring[k] = BtnDlgOk}) = 1

\* C13 (as claimed): Scenario C.  The whole walk records one
\* ButtonActivation with triggeredDialog = TRUE and one DialogEscape with
\* escapedSuccessfully = TRUE, and no other of either.
C13_OneActivation ==
  (C13_Page /\ pc = "done") =>
    /\ Len(buttonActivations) = 1 /\ buttonActivations[1].triggeredDialog
    /\ Len(dialogEscapes) = 1 /\ dialogEscapes[1].escapedSuccessfully

\* C13 (amended): every visit of the button records one ButtonActivation
\* with triggeredDialog = TRUE followed by one DialogEscape with
\* escapedSuccessfully = TRUE (Enter, then Escape), and nothing else
\* records either; when the button is the only focusable element it is
\* visited twice (it is read again after the body, before the wraparound
\* test stops the walk), so the result holds two of each.
C13_ScenarioC ==
  C13_Page =>
    /\ Len(buttonActivations) = Len(dialogEscapes)
    /\ Len(buttonActivations) = Len(probeLog)
    /\ Len(buttonActivations) =
         Cardinality({k \in DOMAIN focusOrder : focusOrder[k].selector = "button.open"})
    /\ \A k \in DOMAIN buttonActivations :
         /\ buttonActivations[k].selector = "button.open"
         /\ buttonActivations[k].triggeredDialog
         /\ buttonActivations[k].note = "Button triggered a dialog/modal"
    /\ \A k \in DOMAIN dialogEscapes :
         /\ dialogEscapes[k].escapedSuccessfully
         /\ dialogEscapes[k].note =
              "Successfully closed dialog opened by button activation"
    /\ \A k \in DOMAIN keyLog :
         /\ keyLog[k] = "Enter" => k < Len(keyLog) /\ keyLog[k + 1] = "Escape"
         /\ keyLog[k] = "Escape" => k > 1 /\ keyLog[k - 1] = "Enter"
    /\ EscapeCount = Len(dialogEscapes)
    /\ keyboardTraps = << >>
    /\ (pc = "done" /\ page.ring = <<BtnDlgOk>>) => Len(buttonActivations) = 2

C13_Witness ==
  /\ page.ring = <<BtnDlgOk>> /\ pc = "done"
  /\ Len(buttonActivations) = 2 /\ Len(dialogEscapes) = 2
  /\ dialogEscapes[2].escapedSuccessfully

\* the first focusable element is a button whose activation changes the URL
C14_Page ==
  /\ Len(page.ring) >= 1
  /\ page.ring[1].tag = "button"
  /\ PressEnter([dom EXCEPT !.focus = 1, !.url = OriginalUrl]).url # OriginalUrl

\* C14 (as claimed): Scenario D.  Once the first element has been read the
\* walk has recorded a ButtonActivation with the navigation note for it,
\* the page is back at the original URL, the walk goes on (the returned
\* result holds every later element of the tab order), and the selector is
\* probed once only however often it is focused.
C14_ScenarioD ==
  (C14_Page /\ Len(focusOrder) >= 1) =>
    /\ pc # "threw"
    /\ Len(buttonActivations) >= 1
    /\ buttonActivations[1].selector = focusOrder[1].selector
    /\ buttonActivations[1].note =
         "Button caused URL navigation - returned to original page to continue testing"
    /\ dom.url = OriginalUrl
    /\ Cardinality({k \in DOMAIN probeLog :
                      probeLog[k].selector = focusOrder[1].selector}) = 1
    /\ pc = "done" =>
         \A n \in DOMAIN page.ring : \E k \in DOMAIN focusOrder : focusOrder[k].node = n

\* C15 (as claimed): Scenario E.  For every visible button element with
\* role=checkbox and tabindex=-1 on the page the scan returns exactly one
\* UnfocusableElement, whatever the walk did before.
C15_ScenarioE ==
  pc = "done" =>
    \A n \in DOMAIN page.inert :
      LET e == page.inert[n] IN
        (e.tag = "button" /\ e.role = "checkbox" /\ e.tabIndex = -1
           /\ SurveyorVisible(e.style))
          => Cardinality({k \in DOMAIN unfocusableInteractive :
                            /\ unfocusableInteractive[k].selector = Selector(e)
                            /\ unfocusableInteractive[k].role = "checkbox"}) = 1

\* C16 (as claimed): a step whose probe changed the URL ends with the page
\* back at the URL it had before the probe, focus on the body, the repeat
\* counter and the previous selector reset, and the walk going on: the
\* prober's page.goto is not aborted and runKeyboardTests does not end by
\* an exception.
C16_ProbeNavigationRecovered ==
  [][(Len(probeLog') > Len(probeLog) /\ probeLog'[Len(probeLog')].navigated) =>
       /\ pc' = "walk"
       /\ dom'.url = dom.url /\ dom'.focus = 0
       /\ previousFocusedSelector' = NoSelector /\ trapDetectionCount' = 0
       /\ Len(buttonActivations') = Len(buttonActivations) + 1]_vars

\* C17: the step that records a KeyboardTrap, and the exhaustion of the
\* step budget, leave the loop for the scan and never by an exception; the
\* scan leaves focusOrder, buttonActivations, dialogEscapes and
\* keyboardTraps as they were at the stop, so the returned result holds
\* them all; unfocusableInteractive is written by the scan only, the scan
\* is the single step from "scan" to "done", nothing follows "done", and
\* every exit of the loop by break or by the loop condition (trap, budget,
\* wraparound) reaches "done" through it: the scan runs exactly once.
C17_StopsReturnResult ==
  /\ [](pc \in {"walk", "scan", "threw"} => unfocusableInteractive = << >>)
  /\ [](Len(keyboardTraps) > 0 => pc \in {"scan", "done"})
  /\ [][(\/ Len(keyboardTraps') > Len(keyboardTraps)
         \/ pc = "walk" /\ i >= maxTabs)
          => pc' = "scan"]_vars
  /\ [][pc = "scan" =>
         /\ pc' = "done"
         /\ unfocusableInteractive' = UnfocusableScan(page.inert)
         /\ focusOrder' = focusOrder
         /\ buttonActivations' = buttonActivations
         /\ dialogEscapes' = dialogEscapes
         /\ keyboardTraps' = keyboardTraps
         /\ testedElements' = testedElements]_vars
  /\ [][pc' = "done" => pc = "scan"]_vars
  /\ [][pc # "done"]_vars

C17_Witness ==
  /\ pc = "done" /\ i = maxTabs /\ keyboardTraps = << >>
  /\ Len(focusOrder) >= 1 /\ testedElements <= totalFocusableElements

\* -------------------------------------------- the handler (C18, C19)
\* C18: an invocation that has ended holds no open browser (a browser it
\* launched has been closed, whichever awaited call threw), its ACE scan, if
\* any, was followed by aChecker.close(), and it ended by raising exactly
\* the error that was thrown, or by returning when none was; a browser is
\* open, and an error is on its way out, only at positions inside the
\* try blocks.
C18_BrowserClosed ==
  \A id \in Invocations :
    LET c == calls[id] IN
      /\ c.at = "ended" =>
           /\ c.browser # "open"
           /\ c.ace # "scanning"
           /\ c.error = c.thrown
           /\ c.outcome = (IF c.thrown = "" THEN "returned" ELSE "raised")
      /\ c.browser = "open" => c.at \in {"load", "inject", "axe", "walk", "close"}
      /\ c.at \in {"load", "inject", "axe", "walk", "close"} => c.browser = "open"
      /\ c.ace = "scanning" => c.at \in {"getCompliance", "aceClose"}
      /\ (c.thrown # "" /\ c.at # "ended") => c.at \in {"close", "aceClose"}

C18_Witness ==
  /\ calls[1].at = "ended" /\ calls[1].outcome = "raised"
  /\ calls[1].error = "keyboard walk threw" /\ calls[1].browser = "closed"
  /\ calls[2].at = "ended" /\ calls[2].outcome = "raised"
  /\ calls[2].error = "compliance scan failed" /\ calls[2].ace = "closed"
  /\ aceSession = "closed"

\* C19 (as claimed): a step of one invocation writes nothing of another
\* invocation, the configuration is never written, and no step closes the
\* engine session while another invocation's compliance scan is still
\* running in it.
C19_NothingShared ==
  [][/\ serverConfig' = serverConfig
     /\ \A a \in Invocations :
          calls'[a] # calls[a] =>
            \A b \in Invocations \ {a} :
              /\ calls'[b] = calls[b]
              /\ calls[b].at = "getCompliance" => aceSession' = "open"]_vars

\* ------------------------------------------- the JSON conversion (C20)
C20_Ids == {violations[k].id : k \in DOMAIN violations}
C20_Failed == {k \in DOMAIN dialogEscapes : ~dialogEscapes[k].escapedSuccessfully}

\* C20: the conversion returns at most three records with different ids:
\* keyboard-trap iff keyboardTraps is non-empty, dialog-not-escapable iff
\* some DialogEscape has escapedSuccessfully = FALSE, and
\* interactive-not-focusable iff unfocusableInteractive is non-empty; each
\* record's nodes are its underlying entries, one node each and in order
\* (only the failed escapes for the dialog record); nothing else makes a
\* record.
C20_ViolationRecords ==
  pc = "converted" =>
    /\ Len(violations) <= 3
    /\ Cardinality(C20_Ids) = Len(violations)
    /\ C20_Ids \subseteq {"keyboard-trap", "dialog-not-escapable",
                          "interactive-not-focusable"}
    /\ "keyboard-trap" \in C20_Ids <=> keyboardTraps # << >>
    /\ "dialog-not-escapable" \in C20_Ids <=> C20_Failed # {}
    /\ "interactive-not-focusable" \in C20_Ids <=> unfocusableInteractive # << >>
    /\ \A k \in DOMAIN violations :
         LET v == violations[k] IN
           /\ v.id = "keyboard-trap" =>
                /\ Len(v.nodes) = Len(keyboardTraps)
                /\ \A n \in DOMAIN v.nodes :
                     /\ v.nodes[n].target = <<keyboardTraps[n].selector>>
                     /\ v.nodes[n].failureSummary = keyboardTraps[n].issue
           /\ v.id = "dialog-not-escapable" =>
                /\ Len(v.nodes) = Cardinality(C20_Failed)
                /\ \A n \in DOMAIN v.nodes :
                     \E j \in C20_Failed :
                       /\ Cardinality({m \in C20_Failed : m <= j}) = n
                       /\ v.nodes[n].target = <<dialogEscapes[j].dialogSelector>>
                       /\ v.nodes[n].failureSummary = dialogEscapes[j].note
           /\ v.id = "interactive-not-focusable" =>
                /\ Len(v.nodes) = Len(unfocusableInteractive)
                /\ \A n \in DOMAIN v.nodes :
                     v.nodes[n].target = <<unfocusableInteractive[n].selector>>

C20_Witness ==
  /\ pc = "converted" /\ Len(violations) = 3
  /\ Len(dialogEscapes) = 2
  /\ dialogEscapes[1].escapedSuccessfully /\ ~dialogEscapes[2].escapedSuccessfully
  /\ buttonActivations # << >>
  /\ Len(unfocusableInteractive) = 2

\* C21: loading the configuration puts one of the nine WCAG_LEVEL_MAP keys
\* in wcagLevel (each documented key itself, 2.1_AA for a value that is not
\* recognised) and axe or ace in engine (axe for a value that is not
\* recognised), whatever the environment holds.
C21_ConfigValid ==
  serverConfig # NotLoaded =>
    /\ serverConfig.wcagLevel \in DOMAIN WCAG_LEVEL_MAP
    /\ env.WCAG_LEVEL \in KeyInputs => serverConfig.wcagLevel = Join(env.WCAG_LEVEL)
    /\ serverConfig.engine \in {"axe", "ace"}

\* C23: an axe.run made by analyze_url, analyze_url_json, analyze_html or
\* analyze_html_json with no tags or an empty list gets the options derived
\* from the configuration (the level's tags, best-practice when enabled,
\* experimental when enabled); with a non-empty list it gets exactly those
\* tags; and analyze_url passes what analyze_url_json passes for the same
\* arguments and configuration.
C23_ConfiguredOptions ==
  (axeCall # NoAxeCall /\ serverConfig.wcagLevel \in DOMAIN WCAG_LEVEL_MAP) =>
    /\ axeCall.tags \in {Absent, << >>} =>
         axeCall.options =
           [runOnly |-> WCAG_LEVEL_MAP[serverConfig.wcagLevel].axeTags
                          \o (IF serverConfig.includeBestPractices
                              THEN <<"best-practice">> ELSE << >>),
            runExperimental |-> serverConfig.runExperimental,
            threw |-> FALSE]
    /\ axeCall.tags \notin {Absent, << >>} =>
         axeCall.options = [NoOptions EXCEPT !.runOnly = axeCall.tags]
    /\ axeCall.tool = "analyze_url" =>
         axeCall.options = AxeRunOptions(serverConfig, "analyze_url_json", axeCall.tags)

\* C22: runKeyboardTests is called in an invocation only when
\* RUN_PLAYWRIGHT_TESTS is "true" and the tool is analyze_url or
\* analyze_url_json, and with either engine every such invocation that
\* returns has called it; what it returns then is the scanner's findings
\* followed by the keyboard findings, and the scanner's findings alone for
\* the other scanning invocations.
C22_WalkWhenEnabled ==
  \A id \in Invocations :
    LET c == calls[id]
        enabled == env.RUN_PLAYWRIGHT_TESTS = "true" /\ c.tool \in UrlTools
    IN  /\ (c.at = "walk" \/ c.walked) => enabled
        /\ \A k \in DOMAIN c.output : c.output[k] = "keyboard findings" => c.walked
        /\ c.outcome = "returned" =>
             /\ c.walked <=> enabled
             /\ c.output = IF enabled
                           THEN <<"scanner findings", "keyboard findings">>
                           ELSE IF c.tool = "get_rules" /\ c.engine = "ace" THEN << >>
                           ELSE IF c.tool = "get_rules" THEN <<"rules">>
                           ELSE <<"scanner findings">>

\* each engine has returned the scanner's findings followed by the keyboard
\* findings, and an analyze_html invocation has returned without the walk
\* while the walk was enabled
C22_Witness ==
  /\ env.RUN_PLAYWRIGHT_TESTS = "true"
  /\ \E id \in Invocations :
       /\ calls[id].outcome = "returned" /\ calls[id].engine = "ace"
       /\ calls[id].tool = "analyze_url_json"
       /\ calls[id].output = <<"scanner findings", "keyboard findings">>
  /\ \E id \in Invocations :
       /\ calls[id].outcome = "returned" /\ calls[id].tool = "analyze_html"
       /\ ~calls[id].walked

\* the keys sent by the step being taken
NewKeys == SubSeq(keyLog', Len(keyLog) + 1, Len(keyLog'))

\* the step being taken sent the probing Enter
EnterSent == \E k \in DOMAIN NewKeys : NewKeys[k] = "Enter"

\* C24: every probe produces exactly one ButtonActivation: in every run the
\* ButtonActivation records are as many as the probing Enters sent (the
\* collapsing Enter adds none), each record being that of its probe.
C24_ActivationPerProbe ==
  /\ Len(buttonActivations) = Len(probeLog)
  /\ \A k \in DOMAIN probeLog :
       k \in DOMAIN buttonActivations
         /\ buttonActivations[k].selector = probeLog[k].selector

NewEscapes == SubSeq(dialogEscapes', Len(dialogEscapes) + 1, Len(dialogEscapes'))

\* those of them the trap path wrote, and those the probe wrote
NewTrapEscapes ==
  LET trapPath(e) == e.note \in TrapPathNotes IN SelectSeq(NewEscapes, trapPath)
NewProbeEscapes ==
  LET probePath(e) == e.note \notin TrapPathNotes IN SelectSeq(NewEscapes, probePath)

\* the Escape presses of the step being taken
NewEscapeKeys == Cardinality({k \in DOMAIN NewKeys : NewKeys[k] = "Escape"})

\* the step being taken sent a probing Enter that changed the URL
ProbeChangedUrl ==
  /\ EnterSent
  /\ PressEnter(PressTab(dom)).url # PressTab(dom).url

\* C26: a step whose probe changed the URL adds the selector to the memo set,
\* appends one ButtonActivation with triggeredDialog = false, expandedContent
\* = false and the navigation note, appends no DialogEscape, sends neither
\* Escape nor a second Enter, sets the repeat counter to 0, clears the
\* previous-selector marker and records no KeyboardTrap.
C26_NavigationStep ==
  [][ProbeChangedUrl =>
       LET sel == ReadFocused(PressTab(dom)).selector IN
         /\ navigationTriggeringSelectors' = navigationTriggeringSelectors \cup {sel}
         /\ buttonActivations' =
              Append(buttonActivations,
                     [selector |-> sel, activated |-> TRUE,
                      triggeredDialog |-> FALSE, expandedContent |-> FALSE,
                      note |-> "Button caused URL navigation - returned to original page to continue testing"])
         /\ dialogEscapes' = dialogEscapes
         /\ NewKeys = <<"Tab", "Enter">>
         /\ trapDetectionCount' = 0
         /\ previousFocusedSelector' = NoSelector
         /\ keyboardTraps' = keyboardTraps]_vars

\* C27: in a step whose probe left the URL unchanged, if the dialog detector
\* reports a dialog after the Enter, Escape is sent once by the probe and one
\* DialogEscape is recorded by it, successful iff the detector reports no
\* dialog after the Escape; if it reports none, the probe sends no Escape and
\* records no DialogEscape.  Neither outcome ends the walk: the step leaves
\* the loop only by a recorded trap or by the wraparound test.
C27_ProbeDialogEscape ==
  [][(EnterSent /\ ~ProbeChangedUrl) =>
       LET d2 == PressEnter(PressTab(dom))
           d3 == PressEscape(d2)
       IN  /\ IF checkForDialog(d2).inDialog
              THEN /\ Len(NewKeys) >= 3 /\ NewKeys[3] = "Escape"
                   /\ Len(NewProbeEscapes) = 1
                   /\ NewProbeEscapes[1].escapedSuccessfully
                        <=> ~checkForDialog(d3).inDialog
                   /\ NewProbeEscapes[1].dialogSelector
                        = checkForDialog(d2).dialogInfo
              ELSE /\ Len(NewProbeEscapes) = 0
                   /\ NewEscapeKeys = Len(NewTrapEscapes)
           /\ NewEscapeKeys = Len(NewEscapes)
           /\ pc' \in {"walk", "scan"}
           /\ pc' = "scan" =>
                \/ Len(keyboardTraps') = Len(keyboardTraps) + 1
                \/ testedElements' > totalFocusableElements]_vars

\* two probes opened a dialog: the first dialog closed on Escape, the second
\* did not, and the walk went on after each
C27_Witness ==
  /\ Len(dialogEscapes) = 2
  /\ dialogEscapes[1].note = "Successfully closed dialog opened by button activation"
  /\ dialogEscapes[1].escapedSuccessfully
  /\ dialogEscapes[2].note = "Dialog opened by button could not be closed with Escape key"
  /\ ~dialogEscapes[2].escapedSuccessfully
  /\ Len(focusOrder) >= 3
  /\ pc = "walk"

\* the step being taken read, for the fourth time running, the selector the
\* marker holds, after a probe (if any) that left the URL unchanged
SuspicionRaised ==
  LET cur == ReadFocused(PressTab(dom)) IN
    /\ keyLog' # keyLog
    /\ cur.selector # NoSelector
    /\ previousFocusedSelector = cur.selector
    /\ trapDetectionCount + 1 >= TrapThreshold
    /\ ~ProbeChangedUrl

\* C28: a trap suspicion is resolved in the step that raised it.  With focus
\* inside a dialog and fewer than 5 trap-path escapes attempted, Escape is
\* sent and a DialogEscape recorded; then either the dialog is gone (counter
\* 0, marker cleared, walk continues, no KeyboardTrap) or it is still there
\* (KeyboardTrap with the dialog issue text, walk ends).  Otherwise a
\* KeyboardTrap is recorded and the walk ends with no Escape sent by the trap
\* path.  A failed trap-path DialogEscape is therefore the last DialogEscape
\* of the run and comes with a KeyboardTrap.
C28_SuspicionResolved ==
  [][/\ SuspicionRaised =>
          LET cur == ReadFocused(PressTab(dom))
              d   == Probe(PressTab(dom), cur).dom
          IN  IF checkForDialog(d).inDialog /\ dialogEscapeAttempts < maxDialogEscapes
              THEN /\ NewKeys[Len(NewKeys)] = "Escape"
                   /\ Len(NewTrapEscapes) = 1
                   /\ dialogEscapeAttempts' = dialogEscapeAttempts + 1
                   /\ IF ~checkForDialog(PressEscape(d)).inDialog
                      THEN /\ NewTrapEscapes[1].escapedSuccessfully
                           /\ trapDetectionCount' = 0
                           /\ previousFocusedSelector' = NoSelector
                           /\ pc' = "walk"
                           /\ keyboardTraps' = keyboardTraps
                      ELSE /\ ~NewTrapEscapes[1].escapedSuccessfully
                           /\ keyboardTraps' =
                                Append(keyboardTraps,
                                       [selector |-> cur.selector, node |-> cur.node,
                                        issue |-> "Focus is trapped in a dialog that cannot be closed with Escape key"])
                           /\ pc' = "scan"
              ELSE /\ Len(NewTrapEscapes) = 0
                   /\ NewEscapeKeys = Len(NewProbeEscapes)
                   /\ dialogEscapeAttempts' = dialogEscapeAttempts
                   /\ keyboardTraps' =
                        Append(keyboardTraps,
                               [selector |-> cur.selector, node |-> cur.node,
                                issue |-> "Focus is trapped on this element - cannot Tab away after multiple attempts"])
                   /\ pc' = "scan"
     /\ (\E k \in DOMAIN dialogEscapes :
           dialogEscapes[k].note \in TrapPathNotes
             /\ ~dialogEscapes[k].escapedSuccessfully) =>
          /\ dialogEscapes' = dialogEscapes
          /\ Len(keyboardTraps) = 1
          /\ pc # "walk"]_vars

\* one suspicion was escaped and the walk went on; the next one met a dialog
\* that stayed open, and the walk ended with the trap recorded
C28_Witness ==
  /\ page.ring = DialogsRing
  /\ Len(dialogEscapes) = 2
  /\ dialogEscapes[1].note \in TrapPathNotes /\ dialogEscapes[1].escapedSuccessfully
  /\ dialogEscapes[2].note \in TrapPathNotes /\ ~dialogEscapes[2].escapedSuccessfully
  /\ Len(keyboardTraps) = 1
  /\ keyboardTraps[1].issue = "Focus is trapped in a dialog that cannot be closed with Escape key"
  /\ pc = "done"

\* C30: a step in which the Tab leaves focus on the body changes nothing in
\* the result and starts no probe, Escape or trap check; it sets the repeat
\* counter to 0, clears the previous-selector marker and uses up one Tab of
\* the budget.
C30_BodyStepFrame ==
  [][(keyLog' # keyLog /\ ReadFocused(PressTab(dom)).selector = NoSelector) =>
       /\ NewKeys = <<"Tab">>
       /\ UNCHANGED <<totalFocusableElements, testedElements, keyboardTraps,
                      unfocusableInteractive, focusOrder, dialogEscapes,
                      buttonActivations, dialogEscapeAttempts,
                      navigationTriggeringSelectors, probeLog>>
       /\ trapDetectionCount' = 0
       /\ previousFocusedSelector' = NoSelector
       /\ i' = i + 1
       /\ pc' = "walk"]_vars

\* the Tab after the second of two equal links left focus on the body: the
\* body step has cleared a marker and a counter that were set
C30_Witness ==
  /\ page.ring = <<LinkA, LinkA>>
  /\ Len(keyLog) = 3 /\ keyLog[3] = "Tab"
  /\ Len(focusOrder) = 2 /\ testedElements = 2
  /\ dom.focus = 0
  /\ trapDetectionCount = 0 /\ previousFocusedSelector = NoSelector
  /\ pc = "walk"

\* the last n Tab steps before the one being taken all read the selector
ReadRunning(sel, n) ==
  /\ Len(readLog) >= n
  /\ \A k \in (Len(readLog) - n + 1)..Len(readLog) : readLog[k].selector = sel

\* ... and each of them went through to the count of tested elements
CountedRunning(sel, n) ==
  /\ ReadRunning(sel, n)
  /\ \A k \in (Len(readLog) - n + 1)..Len(readLog) : readLog[k].branch = "counted"

\* the step being taken treated the element it read as trap-suspected: it
\* recorded a KeyboardTrap or made a trap-path Escape
SuspectedNow == keyboardTraps' # keyboardTraps \/ Len(NewTrapEscapes) > 0

\* C29 (as claimed): the step in which a selector is read for the third time
\* running (the first read and two repeats, no body step or other selector
\* between them) treats the element as trap-suspected.
C29_ThreeReads ==
  [][LET sel == ReadFocused(PressTab(dom)).selector IN
       (keyLog' # keyLog /\ sel # NoSelector /\ ReadRunning(sel, 2))
         => SuspectedNow]_vars

\* C29 (amended): an element is treated as trap-suspected exactly in the step
\* in which its selector is read for the fourth time running (the first read
\* and three repeats), with no body step or other selector between the four
\* reads and none of the four cut short by a probe that changed the URL or,
\* for the first three, by a suspicion that was escaped.
C29_FourReads ==
  [][LET sel == ReadFocused(PressTab(dom)).selector IN
       (keyLog' # keyLog /\ sel # NoSelector /\ ~ProbeChangedUrl)
         => (SuspectedNow <=> CountedRunning(sel, 3))]_vars

\* four adjacent links with the same selector: three reads were counted and
\* the fourth raised the suspicion
C29_Witness ==
  /\ page.ring = TwinRing
  /\ Len(readLog) = 4
  /\ \A k \in 1..3 : readLog[k] = [selector |-> "a", branch |-> "counted"]
  /\ readLog[4] = [selector |-> "a", branch |-> "trap"]
  /\ Len(keyboardTraps) = 1

\* ---------------------------------------------------------------- C31
\* C31: the navigation filter is in place before the first key press and is
\* never removed; a request is handed to it exactly when it is made on the
\* page under test after the installation; the filter aborts a main-frame
\* navigation to a URL that is neither the page's current URL nor a data:
\* URL, continues every other request, and resolves each request it is
\* handed exactly once.
C31_NavigationFilter ==
  [][/\ keyLog' # << >> => route.installed
     /\ route.installed => route'.installed /\ route'.page = route.page
     /\ Len(route'.log) > Len(route.log) =>
          LET e == route'.log[Len(route'.log)]
              r == e.request
          IN  /\ e.routed <=> (route.installed /\ r.page = WalkPage)
              /\ ~e.routed => e.calls = << >>
              /\ e.routed =>
                   /\ e.calls \in {<<"abort">>, <<"continue">>}
                   /\ e.calls = <<"abort">> <=>
                        /\ r.isNavigation
                        /\ r.mainFrame
                        /\ r.url # dom.url
                        /\ r.url # DataUrl]_vars

\* the filter has aborted one main-frame navigation and continued a
\* main-frame navigation to the current URL, and a key has been pressed
C31_Witness ==
  /\ route.installed
  /\ keyLog # << >>
  /\ Len(route.log) = 2
  /\ route.log[1].routed /\ route.log[1].calls = <<"abort">>
  /\ route.log[2].routed /\ route.log[2].calls = <<"continue">>
  /\ route.log[2].request.isNavigation /\ route.log[2].request.mainFrame
  /\ route.log[2].request.url = dom.url

\* ---------------------------------------------------------------- C32
\* the aria-expanded / aria-pressed / aria-selected values of element k of
\* the ring in page state d
AriaOfElement(d, k) == AriaState([d EXCEPT !.focus = k])

\* C32: for a probe that left the URL unchanged, the ButtonActivation has
\* expandedContent = true iff one of aria-expanded, aria-pressed,
\* aria-selected of the probed element differs after the probing Enter; when
\* expandedContent is true and no dialog opened, one more Enter is sent and
\* the focus is still on the probed element when it is sent; in every other
\* case the step sends one Enter only.
C32_ExpandedContent ==
  [][LET d1 == PressTab(dom)
         d2 == PressEnter(d1)
         enters == Cardinality({k \in DOMAIN NewKeys : NewKeys[k] = "Enter"})
         act == buttonActivations'[Len(buttonActivations')]
     IN  /\ Len(probeLog') = Len(probeLog) + 1
         /\ ~probeLog'[Len(probeLog')].navigated
         => /\ Len(buttonActivations') = Len(buttonActivations) + 1
            /\ act.expandedContent <=>
                 AriaOfElement(d1, d1.focus) # AriaOfElement(d2, d1.focus)
            /\ IF act.expandedContent /\ ~act.triggeredDialog
               THEN enters = 2 /\ d2.focus = d1.focus
               ELSE enters = 1]_vars

\* ---------------------------------------------------------------- C33
\* C33: the scan treats an element as visible iff the census would: for
\* every element outside the tab order the two tests agree, and the scan
\* reports no element that the census test would leave out, an element of
\* opacity 0 in particular.
C33_SameVisibility ==
  pc = "done" =>
    \A n \in DOMAIN page.inert :
      LET e == page.inert[n] IN
        /\ ScannerVisible(e.style) <=> SurveyorVisible(e.style)
        /\ (\E k \in DOMAIN unfocusableInteractive :
              /\ unfocusableInteractive[k].selector = Selector(e)
              /\ unfocusableInteractive[k].role = e.role)
             => SurveyorVisible(e.style) /\ e.style.opacity # "0"

\* ---------------------------------------------------------------- C34
\* does list s contain list w as a contiguous part
Includes(s, w) == \E k \in 1..(Len(s) - Len(w) + 1) : SubSeq(s, k, k + Len(w) - 1) = w

\* the four words of the dialog patterns
DialogWords ==
  {<<"m", "o", "d", "a", "l">>, <<"d", "i", "a", "l", "o", "g">>,
   <<"p", "o", "p", "u", "p">>, <<"o", "v", "e", "r", "l", "a", "y">>}

\* the selector the detector derives for a node
NodeSelector(n) ==
  n.tag \o (IF n.id # << >> THEN "#" \o Join(n.id) ELSE "")
        \o (IF n.classes = << >> THEN ""
            ELSE Join([k \in DOMAIN n.classes |-> "." \o Join(n.classes[k])]))

\* the dialog signature as claimed: role, aria-modal, tag, or one of the four
\* words inside a class name or inside the id
ClaimedSignature(n) ==
  \/ n.role \in {"dialog", "alertdialog"}
  \/ n.ariaModal = "true"
  \/ n.tag = "dialog"
  \/ \E w \in DialogWords :
       \/ \E k \in DOMAIN n.classes : Includes(toLowerCase(n.classes[k]), w)
       \/ Includes(toLowerCase(n.id), w)

\* the dialog signature as amended: role, aria-modal, tag, a class name that
\* is one of the four words, or an id that holds modal or dialog when
\* lower-cased
AmendedSignature(n) ==
  \/ n.role \in {"dialog", "alertdialog"}
  \/ n.ariaModal = "true"
  \/ n.tag = "dialog"
  \/ \E k \in DOMAIN n.classes : n.classes[k] \in DialogWords
  \/ \E w \in {<<"m", "o", "d", "a", "l">>, <<"d", "i", "a", "l", "o", "g">>} :
       Includes(toLowerCase(n.id), w)

\* C34 (as claimed): after a probe that left the URL unchanged, the detector
\* reports a dialog iff a node on the chain from the focused element up to
\* below the body has role dialog or alertdialog, aria-modal true, tag dialog,
\* or a class name or id containing modal, dialog, popup or overlay; the
\* dialog recorded is the innermost such node; the detector leaves the page
\* as the probing Enter left it.
C34_DetectorBySubstring ==
  [][LET d2 == PressEnter(PressTab(dom))
         chain == Chain(d2)
         hits == {k \in DOMAIN chain : ClaimedSignature(chain[k])}
         act == buttonActivations'[Len(buttonActivations')]
     IN  /\ Len(probeLog') = Len(probeLog) + 1
         /\ ~probeLog'[Len(probeLog')].navigated
         => /\ act.triggeredDialog <=> hits # {}
            /\ hits # {} =>
                 /\ NewProbeEscapes # << >>
                 /\ NewProbeEscapes[1].dialogSelector = NodeSelector(chain[SetMin(hits)])
            /\ (~act.triggeredDialog /\ ~act.expandedContent) => dom' = d2]_vars

\* C34 (amended): the same with the signature of a class name equal to one of
\* the four words, or an id holding modal or dialog when lower-cased.
C34_DetectorByToken ==
  [][LET d2 == PressEnter(PressTab(dom))
         chain == Chain(d2)
         hits == {k \in DOMAIN chain : AmendedSignature(chain[k])}
         act == buttonActivations'[Len(buttonActivations')]
     IN  /\ Len(probeLog') = Len(probeLog) + 1
         /\ ~probeLog'[Len(probeLog')].navigated
         => /\ act.triggeredDialog <=> hits # {}
            /\ hits # {} =>
                 /\ NewProbeEscapes # << >>
                 /\ NewProbeEscapes[1].dialogSelector = NodeSelector(chain[SetMin(hits)])
            /\ (~act.triggeredDialog /\ ~act.expandedContent) => dom' = d2]_vars

\* the button inside a role=dialog section inside a div.modal has been probed
\* and the section, the inner of the two, is the dialog recorded
C34_Witness ==
  /\ Len(page.ring) = 2
  /\ page.ring[1].box = 104
  /\ Len(buttonActivations) = 1
  /\ buttonActivations[1].triggeredDialog
  /\ Len(dialogEscapes) = 1
  /\ dialogEscapes[1].dialogSelector = "section"

\* ---------------------------------------------------------------- C35
\* trap-path escapes that closed the dialog
SuccessfulTrapEscapes ==
  Cardinality({k \in DOMAIN dialogEscapes :
                 /\ dialogEscapes[k].note \in TrapPathNotes
                 /\ dialogEscapes[k].escapedSuccessfully})

\* C35: in every state focusOrder.length - testedElements is the number of
\* successful trap-path escapes so far plus the number of KeyboardTraps so
\* far; a step adds one to testedElements exactly when it reads an element
\* and ends neither in a trap-path escape nor in a trap, and a body step
\* adds none.
C35_TestedAccounting ==
  [][/\ Len(focusOrder') - testedElements'
          = SuccessfulTrapEscapes' + Len(keyboardTraps')
     /\ pc = "walk" =>
          testedElements' - testedElements =
            IF /\ Len(focusOrder') > Len(focusOrder)
               /\ Len(keyboardTraps') = Len(keyboardTraps)
               /\ \A k \in DOMAIN NewTrapEscapes : ~NewTrapEscapes[k].escapedSuccessfully
            THEN 1 ELSE 0]_vars

\* ---------------------------------------------------------------- C36
\* C36: when the walk reads the element that keeps the focus at every Tab
\* press (no dialog around it, never probed) with at least four Tab presses
\* of the step budget left, counting that read, it ends with a KeyboardTrap
\* for that element, wherever the element stands in the tab order.
C36_StickyTrapped ==
  pc = "done" =>
    \A f \in DOMAIN readLog :
      (readLog[f].selector = Selector(Sticky) /\ maxTabs - f + 1 >= 4)
        => \E t \in DOMAIN keyboardTraps : keyboardTraps[t].selector = Selector(Sticky)

\* ---------------------------------------------------------------- C37
\* ButtonActivations that report a dialog
TriggeredDialogs ==
  Cardinality({k \in DOMAIN buttonActivations : buttonActivations[k].triggeredDialog})

\* the step being taken recorded an Escape after a probe that left the
\* dialog open
ProbeEscapeFailed ==
  \E k \in DOMAIN NewProbeEscapes : ~NewProbeEscapes[k].escapedSuccessfully

\* C37: dialogEscapeAttempts counts the trap-path Escapes and nothing else:
\* a step adds to it the number of trap-path DialogEscapes it records, so
\* the DialogEscape records are at most the ButtonActivations with
\* triggeredDialog = true plus maxDialogEscapes; a step whose Escape after
\* a probe failed records no KeyboardTrap and leaves the loop only by the
\* wraparound test, unless the same read raised a trap suspicion.
C37_ProbeEscapesOutsideBudget ==
  [][/\ dialogEscapeAttempts' = TrapPathEscapes'
     /\ dialogEscapeAttempts' - dialogEscapeAttempts = Len(NewTrapEscapes)
     /\ dialogEscapeAttempts' <= maxDialogEscapes
     /\ Len(dialogEscapes') <= TriggeredDialogs' + maxDialogEscapes
     /\ (ProbeEscapeFailed /\ ~SuspicionRaised) =>
          /\ keyboardTraps' = keyboardTraps
          /\ pc' = "walk" \/ (pc' = "scan" /\ testedElements' > totalFocusableElements)]_vars

\* the Escape after a probe left the dialog open: the walk goes on with no
\* trap recorded and no attempt counted
C37_Witness ==
  /\ pc = "walk"
  /\ Len(dialogEscapes) = 1
  /\ ~dialogEscapes[1].escapedSuccessfully
  /\ dialogEscapes[1].note \notin TrapPathNotes
  /\ TriggeredDialogs = 1
  /\ dialogEscapeAttempts = 0
  /\ keyboardTraps = << >>

\* ---------------------------------------------------------------- C38
\* C38: totalFocusableElements and the step budget are those of the census
\* taken before the first Tab press, in every state, and no step changes
\* either, the step whose probe changed the URL and whose page.goto brought
\* the page back to the original URL included.
C38_CensusFixed ==
  [][/\ totalFocusableElements' = totalFocusableElements
     /\ maxTabs' = maxTabs
     /\ totalFocusableElements' = Census(page.ring)
     /\ maxTabs' = Min(Census(page.ring) + TabSlack, TabCeiling)]_vars

\* a dialog was closed by the trap path, so fewer elements are displayed
\* than the census counted, and a later step's probe changed the URL and
\* page.goto brought the page back
C38_Witness ==
  /\ dom.closed # {}
  /\ \E k \in DOMAIN buttonActivations : buttonActivations[k] = NavActivation(focusOrder[Len(focusOrder)])
  /\ dom.url = OriginalUrl
  /\ totalFocusableElements = Len(page.ring)

====
